---------------------------- MODULE Spec2Model ----------------------------
(***************************************************************************)
(* A model of hinkelstein, a helper for monorepositories:                  *)
(*   - forEach, the sequential runner (src/src/foreach.ts);                *)
(*   - getOrderedPackages / sortDependencys and withPatchedPackageJson     *)
(*     (src/src/packages.ts);                                              *)
(*   - getNextVersion, the bump inference (src/src/index.ts);              *)
(*   - the commands release and publish with remoteNpmGet, getReleaseData  *)
(*     and getReleaseCommits (src/src/index.ts);                           *)
(*   - updatePackageJson, the two rewrites of the manifest text, main and  *)
(*     runOnPackages, runCommandBootstrap with linkDependencies, and       *)
(*     release run again (src/src/index.ts, src/src/packages.ts).          *)
(* Each component has its own specification over the shared variables; the *)
(* variables of the other components keep their idle values.               *)
(***************************************************************************)
EXTENDS Integers, Sequences, FiniteSets, TLC

(***************************************************************************)
(* JavaScript values.  A value carries its type, so that the strict        *)
(* comparison `=== false` and truthiness are different tests.              *)
(***************************************************************************)
JSFalse     == [t |-> "boolean",   v |-> "false"]
JSTrue      == [t |-> "boolean",   v |-> "true"]
JSUndefined == [t |-> "undefined", v |-> "undefined"]
JSNull      == [t |-> "object",    v |-> "null"]
JSZero      == [t |-> "number",    v |-> "0"]
JSStr(s)    == [t |-> "string",    v |-> s]
JSError(e)  == [t |-> "error",     v |-> e]

\* ToBoolean(v) = false
Falsy(v) == v \in {JSFalse, JSUndefined, JSNull, JSZero, JSStr("")}

(***************************************************************************)
(* Promises: pending, fulfilled with a value, or rejected with an error.   *)
(***************************************************************************)
Pending      == [state |-> "pending",   value |-> JSUndefined]
Fulfilled(v) == [state |-> "fulfilled", value |-> v]
Rejected(e)  == [state |-> "rejected",  value |-> e]

(***************************************************************************)
(* Bounds of the model.                                                    *)
(***************************************************************************)
MaxLen == 3          \* longest list handed to forEach
MaxPackages == 3     \* most directories under packages/
MaxEdges == 2        \* most dependency entries over all manifests
MaxCommits == 2      \* most kept commits of a package
MaxVer == 1          \* largest major, minor or patch number of a published version
MaxRuns == 2         \* how often release is run in a row

ItemNames == <<"a", "b", "c", "d", "e">>
Min(x, y) == IF x < y THEN x ELSE y

VARIABLES
  \* ---- forEach (src/src/foreach.ts) ----
  list,        \* the list handed to forEach
  chain,       \* chain[0] = Promise.resolve(true); chain[i] = the promise
               \* the reduce callback of entry i returned
  started,     \* indices whose reduce callback has run
  taskResult,  \* taskResult[i]: the promise task(list[i]) returned
  inflight,    \* indices whose task was invoked and has not settled
  called,      \* indices of the entries task was invoked with, in order
  skipped      \* indices of the entries reported by "Skipping ${entry}"

feVars == <<list, chain, started, taskResult, inflight, called, skipped>>

VARIABLES
  \* ---- getOrderedPackages (src/src/packages.ts) ----
  manifests,   \* manifests[dir]: the package.json of packages/<dir>
  sortPc,      \* "start" | "listed" | "sorted" | "failed"
  discovered,  \* what host.readdir(packagesDirectory) resolved to
  ordered      \* what getOrderedPackages resolved to

sortVars == <<manifests, sortPc, discovered, ordered>>

VARIABLES
  \* ---- withPatchedPackageJson (src/src/packages.ts) ----
  packagesDir, \* the directories under packages/
  packageDir,  \* the package withPatchedPackageJson was called for
  files,       \* files.json: packages/<dir>/package.json on disk,
               \* files.orig: packages/<dir>/package.json.orig on disk
  before,      \* the content of package.json when the call was made
  pkgRead,     \* the manifest object readJson resolved to
  patchPc,     \* the step withPatchedPackageJson is at
  caught,      \* the error the catch handler received
  fnWrote,     \* the wrapped operation has rewritten package.json
  moved,       \* number of completed moves of the backup onto the manifest
  patchResult  \* the promise withPatchedPackageJson returned

patchVars == <<packagesDir, packageDir, files, before, pkgRead, patchPc, caught,
               fnWrote, moved, patchResult>>

VARIABLES
  \* ---- getNextVersion (src/src/index.ts) ----
  verPc,       \* "start" | "done"
  commits,     \* data.commits: the kept commits, newest first
  lastVersion, \* data.lastVersion: the version under the dist-tag, if any
  pkgVersion,  \* data.pkg.version
  release,     \* data.release
  nextVersion  \* data.nextVersion

verVars == <<verPc, commits, lastVersion, pkgVersion, release, nextVersion>>

VARIABLES
  \* ---- the commands release and publish (src/src/index.ts) ----
  command,        \* the command runOnPackages applies: "release" | "publish"
  cmdPc,          \* the step of the command's promise chain that runs next
  pkgTag,         \* publishConfig.tag of the manifest on disk, "" if absent
  diskVersion,    \* the version field of the manifest on disk
  npm,            \* data.npm: what remoteNpmGet resolved to
  tag,            \* data.tag
  lastGitHash,    \* data.lastGitHash, "" while undefined
  requireRelease, \* data.requireRelease
  gitLogOut,      \* the entries git log reported, newest first
  tagList,        \* the local tags `git tag` listed
  tempDir,        \* whether the directory publish-temp exists
  effects,        \* the host calls made so far, in order
  cmdErr,         \* the error the .catch of publish received
  cmdResult,      \* the promise the command returned
  nextInvoked     \* whether runOnPackages invoked the command for the next package

cmdVars == <<command, cmdPc, pkgTag, diskVersion, npm, tag, lastGitHash, requireRelease,
             gitLogOut, tagList, tempDir, effects, cmdErr, cmdResult, nextInvoked>>

VARIABLES
  \* ---- updatePackageJson (src/src/index.ts) ----
  text,           \* the text of packages/<dir>/package.json, line by line
  textBefore,     \* the text when release read the manifest (data.pkg)
  rwPc,           \* "start" | "incremented" | "updated" | "threw" | "failed"
  rwNextVersion,  \* data.nextVersion, as text
  siblingVersion  \* the version field of the manifest of sibling b, as text

rwVars == <<text, textBefore, rwPc, rwNextVersion, siblingVersion>>

VARIABLES
  \* ---- main and runOnPackages (src/src/index.ts) ----
  build,          \* which index is run: "index.ts" | "part_001"
  argv,           \* process.argv.slice(2)
  runPc,          \* the step of main that runs next
  runList,        \* what getOrderedPackages resolved to
  runIndex,       \* the entry forEach is at
  runValue,       \* continueReduce: what the previous callback resolved to
  invocations,    \* the calls of commands[command], in order
  runPromise,     \* the promise runOnPackages returned
  printed,        \* what main wrote to the console
  exitCode        \* the exit status of the process, -1 while it runs

runVars == <<build, argv, runPc, runList, runIndex, runValue, invocations, runPromise,
             printed, exitCode>>

VARIABLES
  \* ---- runCommandBootstrap (src/src/index.ts, src/src/packages.ts) ----
  bootPc,          \* the step of runCommandBootstrap that runs next
  npmRan,          \* the npm calls of the wrapped operation, in order
  toLink,          \* the dependencies linkDependencies has still to link
  links,           \* the link files written, in order
  bootResult,      \* the promise runCommandBootstrap returned
  bootNextInvoked  \* whether the command was invoked for the next package

bootVars == <<bootPc, npmRan, toLink, links, bootResult, bootNextInvoked>>

VARIABLES
  \* ---- release run twice (src/src/index.ts) ----
  rrPc,        \* the step of runCommandRelease that runs next
  rrLog,       \* the kept commits since the last published one, newest first
  rrLast,      \* the version the registry has under the dist-tag
  rrDisk,      \* the version field of the manifest on disk
  rrHead,      \* the version field of the manifest at HEAD
  rrDirty,     \* whether files other than the manifest differ from HEAD
  rrRuns       \* one record per run of release, in order

rerunVars == <<rrPc, rrLog, rrLast, rrDisk, rrHead, rrDirty, rrRuns>>

vars == <<feVars, sortVars, patchVars, verVars, cmdVars, rwVars, runVars, bootVars,
          rerunVars>>

\* what the actions of one component leave alone
notFeVars == <<sortVars, patchVars, verVars, cmdVars, rwVars, runVars,
    bootVars, rerunVars>>
notSortVars == <<feVars, patchVars, verVars, cmdVars, rwVars, runVars,
    bootVars, rerunVars>>
notPatchVars == <<feVars, sortVars, verVars, cmdVars, rwVars, runVars,
    bootVars, rerunVars>>
notVerVars == <<feVars, sortVars, patchVars, cmdVars, rwVars, runVars,
    bootVars, rerunVars>>
notCmdVars == <<feVars, sortVars, patchVars, rwVars, runVars,
    bootVars, rerunVars>>
notRwVars == <<feVars, sortVars, patchVars, verVars, cmdVars, runVars,
    bootVars, rerunVars>>
notRunVars == <<feVars, sortVars, patchVars, verVars, cmdVars, rwVars,
    bootVars, rerunVars>>
notBootVars == <<feVars, sortVars, verVars, cmdVars, rwVars, runVars, rerunVars>>
notRerunVars == <<feVars, sortVars, patchVars, verVars, cmdVars, rwVars, runVars,
                  bootVars>>

(***************************************************************************)
(* forEach                                                                 *)
(***************************************************************************)
\* what a task may resolve to: the stop value, the other falsy values, true,
\* or the entry it was given (as in the tests)
TaskValues(entry) ==
  {JSFalse, JSUndefined, JSNull, JSZero, JSStr(""), JSTrue, JSStr(entry)}

\* what a task may fail with
TaskErrors == {JSError("E1"), JSError("E2")}

N == Len(list)

\* `promise.then(continueReduce => ...)`: the callback of entry i runs once
\* the promise of entry i-1 is fulfilled
ThenReadyNoWait(i) == chain[i - 1].state # "rejected"
ThenReady(i) == chain[i - 1].state = "fulfilled"

\* `if (continueReduce === false)`
\* the initial value of the reduce: Promise.resolve(true)
ReduceInitialUndefined == JSUndefined
ReduceInitial == JSTrue

ContinueReduceLooselyFalse(continueReduce) == continueReduce \in {JSFalse, JSZero, JSStr("")}
ContinueReduceIsFalsy(continueReduce) == Falsy(continueReduce)
ContinueReduceIsFalse(continueReduce) == continueReduce = JSFalse

\* `return false;` of the skip branch
SkipResultUndefined == JSUndefined
SkipResult == JSFalse

\* `promise.then(onFulfilled)` has no rejection handler: a rejected promise
\* is passed on as it is
ThenCatchToFalse(promise) == Fulfilled(JSFalse)
ThenOnRejected(promise) == promise

FeIdle ==
  /\ list = <<>>
  /\ chain = <<>>
  /\ started = {}
  /\ taskResult = <<>>
  /\ inflight = {}
  /\ called = <<>>
  /\ skipped = <<>>

SortIdle ==
  /\ manifests = <<>>
  /\ sortPc = "idle"
  /\ discovered = <<>>
  /\ ordered = <<>>

\* a manifest object without content, and a path that is no file
NoPkg == [name |-> "", dependencies |-> [defined |-> FALSE, entries |-> <<>>],
          devDependencies |-> [defined |-> FALSE, entries |-> <<>>]]
NoFile == [text |-> "ENOENT", pkg |-> NoPkg]
NoError == [t |-> "none", v |-> ""]

PatchIdle ==
  /\ packagesDir = {}
  /\ packageDir = ""
  /\ files = [json |-> NoFile, orig |-> NoFile]
  /\ before = NoFile
  /\ pkgRead = NoPkg
  /\ patchPc = "idle"
  /\ caught = NoError
  /\ fnWrote = FALSE
  /\ moved = 0
  /\ patchResult = Pending

\* a version x.y.z or x.y.z-pre, no version (undefined), and null
Version(x, y, z, pre) == [t |-> "version", major |-> x, minor |-> y, patch |-> z, pre |-> pre]
NoVersion == [t |-> "undefined", major |-> 0, minor |-> 0, patch |-> 0, pre |-> ""]
NullVersion == [t |-> "null", major |-> 0, minor |-> 0, patch |-> 0, pre |-> ""]

VerIdle ==
  /\ verPc = "idle"
  /\ commits = <<>>
  /\ lastVersion = NoVersion
  /\ pkgVersion = NoVersion
  /\ release = ""
  /\ nextVersion = NoVersion

\* data.npm while remoteNpmGet has not resolved
NoNpm == [present |-> FALSE, latest |-> NoVersion, next |-> NoVersion, gitHead |-> ""]

CmdIdle ==
  /\ command = ""
  /\ cmdPc = "idle"
  /\ pkgTag = ""
  /\ diskVersion = NoVersion
  /\ npm = NoNpm
  /\ tag = ""
  /\ lastGitHash = ""
  /\ requireRelease = JSUndefined
  /\ gitLogOut = <<>>
  /\ tagList = {}
  /\ tempDir = FALSE
  /\ effects = <<>>
  /\ cmdErr = NoError
  /\ cmdResult = Pending
  /\ nextInvoked = FALSE

RwIdle ==
  /\ text = <<>>
  /\ textBefore = <<>>
  /\ rwPc = "idle"
  /\ rwNextVersion = <<>>
  /\ siblingVersion = <<>>

RunIdle ==
  /\ build = ""
  /\ argv = <<>>
  /\ runPc = "idle"
  /\ runList = <<>>
  /\ runIndex = 0
  /\ runValue = JSUndefined
  /\ invocations = <<>>
  /\ runPromise = Pending
  /\ printed = <<>>
  /\ exitCode = -1

BootIdle ==
  /\ bootPc = "idle"
  /\ npmRan = <<>>
  /\ toLink = <<>>
  /\ links = <<>>
  /\ bootResult = Pending
  /\ bootNextInvoked = FALSE

RerunIdle ==
  /\ rrPc = "idle"
  /\ rrLog = <<>>
  /\ rrLast = NoVersion
  /\ rrDisk = NoVersion
  /\ rrHead = NoVersion
  /\ rrDirty = FALSE
  /\ rrRuns = <<>>

FeInit ==
  /\ SortIdle
  /\ PatchIdle
  /\ VerIdle
  /\ CmdIdle
  /\ RwIdle
  /\ RunIdle
  /\ BootIdle
  /\ RerunIdle
  /\ list \in {SubSeq(ItemNames, 1, n) : n \in 0 .. MaxLen}
  /\ chain = [i \in 0 .. Len(list) |-> IF i = 0 THEN Fulfilled(ReduceInitial) ELSE Pending]
  /\ started = {}
  /\ taskResult = [i \in 1 .. Len(list) |-> Pending]
  /\ inflight = {}
  /\ called = <<>>
  /\ skipped = <<>>

\* the callback finds continueReduce === false: logs the entry, returns false
ReduceSkip(i) ==
  /\ i \in 1 .. N
  /\ i \notin started
  /\ ThenReady(i)
  /\ ContinueReduceIsFalse(chain[i - 1].value)
  /\ started' = started \cup {i}
  /\ skipped' = Append(skipped, i)
  /\ chain' = [chain EXCEPT ![i] = Fulfilled(SkipResult)]
  /\ UNCHANGED <<list, taskResult, inflight, called, notFeVars>>

\* `return task(entry)` where the task returns a value or throws
ReduceCallSync(i) ==
  /\ i \in 1 .. N
  /\ i \notin started
  /\ ThenReady(i)
  /\ ~ContinueReduceIsFalse(chain[i - 1].value)
  /\ started' = started \cup {i}
  /\ called' = Append(called, i)
  /\ \E p \in {Fulfilled(v) : v \in TaskValues(list[i])}
              \cup {Rejected(e) : e \in TaskErrors} :
       /\ taskResult' = [taskResult EXCEPT ![i] = p]
       /\ chain' = [chain EXCEPT ![i] = p]
  /\ UNCHANGED <<list, inflight, skipped, notFeVars>>

\* `return task(entry)` where the task returns a promise still pending
ReduceCallAsync(i) ==
  /\ i \in 1 .. N
  /\ i \notin started
  /\ ThenReady(i)
  /\ ~ContinueReduceIsFalse(chain[i - 1].value)
  /\ started' = started \cup {i}
  /\ called' = Append(called, i)
  /\ inflight' = inflight \cup {i}
  /\ UNCHANGED <<list, chain, taskResult, skipped, notFeVars>>

\* the promise the task returned settles; the chain's promise adopts it
TaskSettle(i) ==
  /\ i \in inflight
  /\ inflight' = inflight \ {i}
  /\ \E p \in {Fulfilled(v) : v \in TaskValues(list[i])}
              \cup {Rejected(e) : e \in TaskErrors} :
       /\ taskResult' = [taskResult EXCEPT ![i] = p]
       /\ chain' = [chain EXCEPT ![i] = p]
  /\ UNCHANGED <<list, started, called, skipped, notFeVars>>

\* the promise of entry i-1 is rejected: the callback of entry i is not run
ReducePassRejection(i) ==
  /\ i \in 1 .. N
  /\ i \notin started
  /\ chain[i - 1].state = "rejected"
  /\ chain[i].state = "pending"
  /\ started' = started \cup {i}
  /\ chain' = [chain EXCEPT ![i] = ThenOnRejected(chain[i - 1])]
  /\ UNCHANGED <<list, taskResult, inflight, called, skipped, notFeVars>>

FeNext ==
  \E i \in 1 .. MaxLen + 1 :
    \/ ReduceSkip(i)
    \/ ReduceCallSync(i)
    \/ ReduceCallAsync(i)
    \/ TaskSettle(i)
    \/ ReducePassRejection(i)

\* the promise forEach returned
forEachResult == chain[N]
FeSettled == forEachResult.state # "pending"

SpecForEach == FeInit /\ [][FeNext]_vars

\* the entries behind a sequence of indices
Entries(idx) == [k \in 1 .. Len(idx) |-> list[idx[k]]]
\* <<from, from + 1, ..., to>>
Range(from, to) == [k \in 1 .. (IF to >= from THEN to - from + 1 ELSE 0) |-> from + k - 1]
IsPrefix(s, t) == Len(s) <= Len(t) /\ s = SubSeq(t, 1, Len(s))

(***************************************************************************)
(* C1: if the task for item k resolves to the boolean false, the task is   *)
(* never invoked for items k+1..N, exactly those items are reported as     *)
(* skipped (in list order), and forEach resolves to false.                 *)
(***************************************************************************)
C1_StopAtFalse ==
  \A k \in 1 .. N :
    taskResult[k] = Fulfilled(JSFalse) =>
      /\ called = Range(1, k)
      /\ IsPrefix(skipped, Range(k + 1, N))
      /\ FeSettled =>
            /\ skipped = Range(k + 1, N)
            /\ Entries(skipped) = SubSeq(list, k + 1, N)
            /\ forEachResult = Fulfilled(JSFalse)

\* the first of three tasks resolved to false; the other two were skipped
C1_Witness ==
  /\ N = 3
  /\ FeSettled
  /\ taskResult[1] = Fulfilled(JSFalse)
  /\ called = <<1>>
  /\ Entries(skipped) = <<"b", "c">>

(***************************************************************************)
(* C2: over a non-empty list of N items whose tasks all resolve, none of   *)
(* them to false, the task is invoked exactly N times, once per item in    *)
(* list order, and forEach resolves to the value of the last item's task.  *)
(***************************************************************************)
C2_AllCalledLastValue ==
  ( /\ FeSettled
    /\ N > 0
    /\ \A i \in 1 .. N : /\ taskResult[i] # Fulfilled(JSFalse)
                         /\ taskResult[i].state # "rejected" )
  => /\ called = Range(1, N)
     /\ Entries(called) = list
     /\ forEachResult = taskResult[N]
     /\ forEachResult.state = "fulfilled"

\* three tasks ran although the first two resolved to falsy values that are
\* not false; the result is the third task's value
C2_Witness ==
  /\ N = 3
  /\ FeSettled
  /\ taskResult[1] = Fulfilled(JSUndefined)
  /\ taskResult[2] = Fulfilled(JSZero)
  /\ called = <<1, 2, 3>>
  /\ forEachResult = Fulfilled(JSStr("c"))

(***************************************************************************)
(* C3: forEach is strictly one-at-a-time: the task of an item is never     *)
(* started before the tasks of all earlier items have completed, so at     *)
(* most one task is in flight in every reachable state.                    *)
(***************************************************************************)
C3_OneAtATime ==
  /\ Cardinality(inflight) <= 1
  /\ \A k \in 1 .. Len(called) :
       \A j \in 1 .. called[k] - 1 : taskResult[j].state = "fulfilled"

\* the second task is in flight after the first, asynchronous, task completed
C3_Witness ==
  /\ inflight = {2}
  /\ called = <<1, 2>>
  /\ taskResult[1].state = "fulfilled"
  /\ taskResult[2].state = "pending"

(***************************************************************************)
(* C4: if the task for item k fails (throws or rejects), forEach rejects   *)
(* with that same error, the task is never invoked for an item after k,    *)
(* nothing is reported as skipped and the failure is not turned into the   *)
(* stop value false.                                                       *)
(***************************************************************************)
C4_FailureAborts ==
  \A k \in 1 .. N :
    taskResult[k].state = "rejected" =>
      /\ called = Range(1, k)
      /\ skipped = <<>>
      /\ \A j \in k .. N : chain[j] \in {Pending, taskResult[k]}
      /\ FeSettled => forEachResult = taskResult[k]

\* the second of three tasks failed with E2 and forEach rejected with E2
C4_Witness ==
  /\ N = 3
  /\ FeSettled
  /\ taskResult[2] = Rejected(JSError("E2"))
  /\ forEachResult = Rejected(JSError("E2"))
  /\ called = <<1, 2>>

\* the falsy values other than false
FalsyNotFalse == {JSUndefined, JSNull, JSZero, JSStr("")}

PackageNames == <<"a", "b", "c", "d", "e">>
\* a dependency that is no directory under packages/
External == "x"

Dirs(n) == {PackageNames[i] : i \in 1 .. n}

\* an optional object field of a manifest (dependencies, devDependencies)
Absent == [defined |-> FALSE, entries |-> <<>>]
Object(entries) == [defined |-> TRUE, entries |-> entries]

\* the keys of `(field || {})`
KeysOrEmpty(field) == IF field.defined THEN DOMAIN field.entries ELSE {}

\* `name in (pkg.devDependencies || {}) || name in (pkg.dependencies || {})`
containsDependencyRegularOnly(name, pkg) == name \in KeysOrEmpty(pkg.dependencies)
containsDependency(name, pkg) ==
  \/ name \in KeysOrEmpty(pkg.devDependencies)
  \/ name \in KeysOrEmpty(pkg.dependencies)

\* readAllPackageJsonFiles: the manifests in the order of the list
readAllPackageJsonFiles(dirs) == [i \in 1 .. Len(dirs) |-> manifests[dirs[i]]]

\* `pkgs.find(haystack => needle === haystack.name)`; findPkg throws when
\* there is none
findPkgThrows(needle, pkgs) == ~\E i \in 1 .. Len(pkgs) : pkgs[i].name = needle
findPkg(needle, pkgs) ==
  pkgs[CHOOSE i \in 1 .. Len(pkgs) :
         /\ pkgs[i].name = needle
         /\ \A j \in 1 .. i - 1 : pkgs[j].name # needle]

\* the comparator handed to list.sort
compareThrowsOnMissingDependency(left, right, pkgs) ==
  \/ findPkgThrows(right, pkgs)
  \/ findPkgThrows(left, pkgs)
  \/ \E i \in 1 .. Len(pkgs) :
       \E k \in KeysOrEmpty(pkgs[i].devDependencies) \cup KeysOrEmpty(pkgs[i].dependencies) :
          findPkgThrows(k, pkgs)
compareThrowsOnCycle(left, right, pkgs) ==
  \/ findPkgThrows(right, pkgs)
  \/ findPkgThrows(left, pkgs)
  \/ /\ containsDependency(left, findPkg(right, pkgs))
     /\ containsDependency(right, findPkg(left, pkgs))
compareThrows(left, right, pkgs) ==
  \/ findPkgThrows(right, pkgs)
  \/ /\ ~containsDependency(left, findPkg(right, pkgs))
     /\ findPkgThrows(left, pkgs)
compareNeverEqual(left, right, pkgs) ==
  IF containsDependency(left, findPkg(right, pkgs)) THEN -1
  ELSE IF containsDependency(right, findPkg(left, pkgs)) THEN 1
  ELSE -1
compareSwapped(left, right, pkgs) ==
  IF containsDependency(left, findPkg(right, pkgs)) THEN 1
  ELSE IF containsDependency(right, findPkg(left, pkgs)) THEN -1
  ELSE 0
compare(left, right, pkgs) ==
  IF containsDependency(left, findPkg(right, pkgs)) THEN -1
  ELSE IF containsDependency(right, findPkg(left, pkgs)) THEN 1
  ELSE 0

(***************************************************************************)
(* Array.prototype.sort.  The comparator is not a consistent comparison    *)
(* function (0 is not transitive), so the order is the engine's: the       *)
(* insertion sort V8 used for short arrays up to Node 10, or the TimSort   *)
(* of later versions, which for a short array is one run extended by       *)
(* binary insertion.  A sort is a record [arr, threw].                     *)
(***************************************************************************)
Sorted(a) == [arr |-> a, threw |-> FALSE]
Threw(a) == [arr |-> a, threw |-> TRUE]

RECURSIVE InsertionInner(_, _, _, _)
\* for (j = i - 1; j >= from; j--) { if (comparefn(a[j], element) > 0)
\*   a[j + 1] = a[j]; else break; }  a[j + 1] = element;
InsertionInner(a, element, j, pkgs) ==
  IF j < 1 THEN Sorted([a EXCEPT ![1] = element])
  ELSE IF compareThrows(a[j], element, pkgs) THEN Threw(a)
  ELSE IF compare(a[j], element, pkgs) > 0
       THEN InsertionInner([a EXCEPT ![j + 1] = a[j]], element, j - 1, pkgs)
       ELSE Sorted([a EXCEPT ![j + 1] = element])

RECURSIVE InsertionSort(_, _, _)
\* for (i = from + 1; i < to; i++)
InsertionSort(a, i, pkgs) ==
  IF i > Len(a) THEN Sorted(a)
  ELSE LET r == InsertionInner(a, a[i], i - 1, pkgs)
       IN  IF r.threw THEN r ELSE InsertionSort(r.arr, i + 1, pkgs)

Reverse(a, n) == [k \in 1 .. Len(a) |-> IF k <= n THEN a[n + 1 - k] ELSE a[k]]

RECURSIVE RunLength(_, _, _, _)
\* CountAndMakeRun's loop: the length of the run that starts the array and
\* goes on at idx; [len, threw]
RunLength(a, idx, isDescending, pkgs) ==
  IF idx > Len(a) THEN [len |-> idx - 1, threw |-> FALSE]
  ELSE IF compareThrows(a[idx], a[idx - 1], pkgs) THEN [len |-> idx - 1, threw |-> TRUE]
  ELSE LET order == compare(a[idx], a[idx - 1], pkgs)
       IN  IF (isDescending /\ order >= 0) \/ (~isDescending /\ order < 0)
           THEN [len |-> idx - 1, threw |-> FALSE]
           ELSE RunLength(a, idx + 1, isDescending, pkgs)

RECURSIVE BinarySearch(_, _, _, _, _)
\* while (left < right) { mid = left + ((right - left) >> 1);
\*   if (comparefn(pivot, a[mid]) < 0) right = mid; else left = mid + 1; }
BinarySearch(a, pivot, left, right, pkgs) ==
  IF left >= right THEN [pos |-> left, threw |-> FALSE]
  ELSE LET mid == left + ((right - left) \div 2)
       IN  IF compareThrows(pivot, a[mid], pkgs) THEN [pos |-> left, threw |-> TRUE]
           ELSE IF compare(pivot, a[mid], pkgs) < 0
                THEN BinarySearch(a, pivot, left, mid, pkgs)
                ELSE BinarySearch(a, pivot, mid + 1, right, pkgs)

\* a[start] moved to position pos, the elements between shifted up by one
InsertAt(a, start, pos) ==
  [k \in 1 .. Len(a) |->
     IF k < pos \/ k > start THEN a[k]
     ELSE IF k = pos THEN a[start] ELSE a[k - 1]]

RECURSIVE BinaryInsertionSort(_, _, _)
BinaryInsertionSort(a, start, pkgs) ==
  IF start > Len(a) THEN Sorted(a)
  ELSE LET s == BinarySearch(a, a[start], 1, start, pkgs)
       IN  IF s.threw THEN Threw(a)
           ELSE BinaryInsertionSort(InsertAt(a, start, s.pos), start + 1, pkgs)

TimSort(a, pkgs) ==
  IF Len(a) < 2 THEN Sorted(a)
  ELSE IF compareThrows(a[2], a[1], pkgs) THEN Threw(a)
  ELSE LET isDescending == compare(a[2], a[1], pkgs) < 0
           run == RunLength(a, 3, isDescending, pkgs)
           made == IF isDescending THEN Reverse(a, run.len) ELSE a
       IN  IF run.threw THEN Threw(a)
           ELSE BinaryInsertionSort(made, run.len + 1, pkgs)

SortEngines == {"insertion", "timsort"}

ArraySort(engine, a, pkgs) ==
  IF engine = "insertion" THEN InsertionSort(a, 2, pkgs) ELSE TimSort(a, pkgs)

\* list.sort(comparator); return list
sortDependencys(engine, dirs, pkgs) == ArraySort(engine, dirs, pkgs)

\* the version range a manifest asks of a dependency
RangeOf(dep) == IF dep \in {PackageNames[i] : i \in 1 .. Len(PackageNames)} THEN "*" ELSE "^1.0.0"

\* the manifests a set of dependency entries <<dir, dependency, field>> makes;
\* a field without entries is absent, as in test/packages-test.ts
Field(edges, dir, field) ==
  LET keys == {e[2] : e \in {x \in edges : x[1] = dir /\ x[3] = field}}
  IN  IF keys = {} THEN Absent ELSE Object([k \in keys |-> RangeOf(k)])

Manifest(edges, dir) ==
  [name            |-> dir,
   dependencies    |-> Field(edges, dir, "dependencies"),
   devDependencies |-> Field(edges, dir, "devDependencies")]

\* the name field of a manifest is free text: a package published under a
\* name that is not the name of its directory
PublishedAs(dir) == "pkg-" \o dir
Renamed(edges, dir) == [Manifest(edges, dir) EXCEPT !.name = PublishedAs(dir)]
NoDir == "none"

EdgeUniverse(n) ==
  {<<d, t, f>> : d \in Dirs(n), t \in Dirs(n) \cup {External},
                 f \in {"dependencies", "devDependencies"}}
    \ {<<d, d, f>> : d \in Dirs(n), f \in {"dependencies", "devDependencies"}}

EdgeSets(n) ==
  UNION {{{g[i] : i \in 1 .. k} : g \in [1 .. k -> EdgeUniverse(n)]} : k \in 0 .. MaxEdges}

Orderings(S) ==
  {p \in [1 .. Cardinality(S) -> S] : \A i, j \in 1 .. Cardinality(S) : p[i] = p[j] => i = j}

SortInit ==
  /\ FeIdle
  /\ PatchIdle
  /\ VerIdle
  /\ CmdIdle
  /\ RwIdle
  /\ RunIdle
  /\ BootIdle
  /\ RerunIdle
  /\ \E n \in 0 .. MaxPackages : \E edges \in EdgeSets(n) :
       \E renamed \in Dirs(n) \cup {NoDir} :
          manifests = [d \in Dirs(n) |->
                         IF d = renamed THEN Renamed(edges, d) ELSE Manifest(edges, d)]
  /\ sortPc = "start"
  /\ discovered = <<>>
  /\ ordered = <<>>

\* getPackages: host.readdir(packagesDirectory) resolves, in any order
GetPackages ==
  /\ sortPc = "start"
  /\ discovered' \in Orderings(DOMAIN manifests)
  /\ sortPc' = "listed"
  /\ UNCHANGED <<manifests, ordered, notSortVars>>

\* readAllPackageJsonFiles, then sortDependencys
SortDependencys ==
  /\ sortPc = "listed"
  /\ \E engine \in SortEngines :
       LET r == sortDependencys(engine, discovered, readAllPackageJsonFiles(discovered))
       IN  /\ sortPc' = IF r.threw THEN "failed" ELSE "sorted"
           /\ ordered' = IF r.threw THEN <<>> ELSE r.arr
  /\ UNCHANGED <<manifests, discovered, notSortVars>>

SortNext == GetPackages \/ SortDependencys

SpecSort == SortInit /\ [][SortNext]_vars

\* the position of a directory in a list
IndexOf(seq, x) == CHOOSE i \in 1 .. Len(seq) : seq[i] = x

\* dir declares dep, under dependencies or devDependencies
DependsOn(dir, dep) == containsDependency(dep, manifests[dir])

\* the dependency edges between the discovered packages have no cycle
RECURSIVE Reaches(_, _, _)
Reaches(from, to, k) ==
  \/ DependsOn(from, to)
  \/ /\ k > 1
     /\ \E mid \in DOMAIN manifests : DependsOn(from, mid) /\ Reaches(mid, to, k - 1)
Acyclic ==
  \A d \in DOMAIN manifests : ~Reaches(d, d, Cardinality(DOMAIN manifests))
\* only direct edges: no package is a dependency of a dependency
OnlyDirectEdges ==
  \A p, q, r \in DOMAIN manifests : ~(DependsOn(p, q) /\ DependsOn(q, r))

(***************************************************************************)
(* C5: for every discovered package list whose dependency edges form a DAG *)
(* with only direct edges, getOrderedPackages returns an order in which    *)
(* every dependency appears before each package that depends on it,        *)
(* whatever the discovery order was.                                       *)
(***************************************************************************)
C5_DependenciesFirst ==
  (sortPc = "sorted" /\ Acyclic /\ OnlyDirectEdges) =>
     \A dir, dep \in DOMAIN manifests :
        DependsOn(dir, dep) => IndexOf(ordered, dep) < IndexOf(ordered, dir)

(***************************************************************************)
(* C6: for packages a (depends on b), b (no dependencies) and c            *)
(* (dev-depends on b) discovered in the order [a, b, c],                   *)
(* getOrderedPackages returns exactly [b, a, c].                           *)
(***************************************************************************)
TestManifests ==
  [d \in {"a", "b", "c"} |->
     Manifest({<<"a", "b", "dependencies">>, <<"c", "b", "devDependencies">>}, d)]

C6_TestScenario ==
  (manifests = TestManifests /\ discovered = <<"a", "b", "c">> /\ sortPc # "listed")
     => (sortPc = "sorted" /\ ordered = <<"b", "a", "c">>)

\* the scenario of test/packages-test.ts was sorted
C6_Witness ==
  /\ manifests = TestManifests
  /\ discovered = <<"a", "b", "c">>
  /\ sortPc = "sorted"
  /\ ordered = <<"b", "a", "c">>

\* getOrderedPackages has settled
SortSettled == sortPc \in {"sorted", "failed"}
\* every discovered directory holds a manifest of that name
AllNamed == \A d \in DOMAIN manifests : manifests[d].name = d
\* some manifest declares a dependency on a name no discovered package has
DeclaresMissing == \E d \in DOMAIN manifests : DependsOn(d, External)
\* no discovered package depends on a discovered package
NoInternalDependency == \A d, e \in DOMAIN manifests : ~DependsOn(d, e)
\* two discovered packages depend on each other
MutualDependency ==
  \E d, e \in DOMAIN manifests : d # e /\ DependsOn(d, e) /\ DependsOn(e, d)
\* same elements, none lost or duplicated
IsPermutation(seq, of) ==
  /\ Len(seq) = Len(of)
  /\ \A i \in 1 .. Len(of) : Cardinality({j \in 1 .. Len(seq) : seq[j] = of[i]}) = 1

(***************************************************************************)
(* C24, as stated: if a manifest in the discovered set declares a          *)
(* dependency (regular or dev) on a name for which no package exists in    *)
(* the discovered set, getOrderedPackages fails instead of returning an    *)
(* order.                                                                  *)
(***************************************************************************)
C24_MissingDependencyFails ==
  (SortSettled /\ DeclaresMissing) => sortPc = "failed"

(***************************************************************************)
(* C24, amended: a dependency on a name outside the discovered set does    *)
(* not make getOrderedPackages fail.  It fails only when a discovered      *)
(* directory has no manifest of that name, and it does fail then whenever  *)
(* the comparator has to look at the manifests of both its arguments       *)
(* (two or more packages, none depending on another).                      *)
(***************************************************************************)
C24_MissingManifestFails ==
  SortSettled =>
     /\ sortPc = "failed" => ~AllNamed
     /\ (~AllNamed /\ Len(discovered) >= 2 /\ NoInternalDependency) => sortPc = "failed"

\* two packages, one of them with a dependency on a name that is no
\* package, were ordered
C24_Witness ==
  /\ sortPc = "sorted"
  /\ DeclaresMissing
  /\ Len(discovered) >= 2
  /\ ordered # <<>>

C29_CycleIsSorted ==
  (SortSettled /\ MutualDependency /\ AllNamed) =>
     /\ sortPc = "sorted"
     /\ IsPermutation(ordered, discovered)

\* a and b depend on each other, a third package is there, and the sort
\* returned
C29_Witness ==
  /\ sortPc = "sorted"
  /\ Len(discovered) = 3
  /\ DependsOn("a", "b")
  /\ DependsOn("b", "a")
  /\ IsPermutation(ordered, discovered)


(***************************************************************************)
(* withPatchedPackageJson                                                  *)
(***************************************************************************)
\* a dependency the wrapped operation adds (npm install --save)
AddedByFn == "y"

\* a file written by hand, and what host.writeJson writes for an object
Handwritten(p) == [text |-> "handwritten", pkg |-> p]
Serialized(p) == [text |-> "serialized", pkg |-> p]
\* what a failed write may leave behind
Garbage == [text |-> "garbage", pkg |-> NoPkg]

HostError(call) == JSError(call)
TypeError == JSError("TypeError")

\* `delete object[key]` for every key of keys
DeleteKeys(field, keys) ==
  Object([k \in (DOMAIN field.entries) \ keys |-> field.entries[k]])

\* `delete pkg.devDependencies[file]` throws when the field is undefined
patchPackageJsonThrows(p, packages) ==
  /\ packages # {}
  /\ (~p.devDependencies.defined \/ ~p.dependencies.defined)

\* packages.forEach(file => delete pkg.devDependencies[file]);
\* packages.forEach(file => delete pkg.dependencies[file]);
patchPackageJsonDevOnly(p, packages) ==
  [p EXCEPT !.devDependencies = DeleteKeys(p.devDependencies, packages)]
patchPackageJson(p, packages) ==
  [p EXCEPT !.devDependencies = DeleteKeys(p.devDependencies, packages),
            !.dependencies = DeleteKeys(p.dependencies, packages)]

\* host.copy(packageJsonPath, packageJsonBackupPath)
HostCopy(fs) == [fs EXCEPT !.orig = fs.json]

\* host.move(packageJsonBackupPath, packageJsonPath, {clobber: true})
HostMoveNoClobber(fs) == IF fs.json = NoFile THEN [json |-> fs.orig, orig |-> NoFile] ELSE fs
HostMove(fs) == [json |-> fs.orig, orig |-> NoFile]

\* the manifest after the wrapped operation added a dependency to it
FnWrite(content) ==
  IF content.pkg.dependencies.defined
    THEN Serialized([content.pkg EXCEPT !.dependencies =
           Object([k \in (DOMAIN content.pkg.dependencies.entries) \cup {AddedByFn} |->
                     IF k = AddedByFn THEN "^2.0.0"
                     ELSE content.pkg.dependencies.entries[k]])])
    ELSE Serialized([content.pkg EXCEPT !.dependencies =
           Object([k \in {AddedByFn} |-> "^2.0.0"])])

\* the fields of the manifest of one package; a field without entries is
\* either absent or an empty object
PatchFields(edges, dir, field) ==
  LET f == Field(edges, dir, field)
  IN  IF f.defined THEN {f} ELSE {Absent, Object(<<>>)}

PatchManifests(n, dir) ==
  UNION {{[name |-> dir, dependencies |-> d, devDependencies |-> v] :
            d \in PatchFields(edges, dir, "dependencies"),
            v \in PatchFields(edges, dir, "devDependencies")} :
         edges \in {es \in EdgeSets(n) : \A e \in es : e[1] = dir}}

PatchInit ==
  /\ FeIdle
  /\ SortIdle
  /\ VerIdle
  /\ CmdIdle
  /\ RwIdle
  /\ RunIdle
  /\ BootIdle
  /\ RerunIdle
  /\ \E n \in 1 .. MaxPackages :
       /\ packagesDir = Dirs(n)
       /\ packageDir \in Dirs(n)
       /\ \E p \in PatchManifests(n, packageDir) :
            before \in {Handwritten(p), Serialized(p)}
  /\ files = [json |-> before, orig |-> NoFile]
  /\ pkgRead = NoPkg
  /\ patchPc = "start"
  /\ caught = NoError
  /\ fnWrote = FALSE
  /\ moved = 0
  /\ patchResult = Pending

\* host.copy resolves
Copy ==
  /\ patchPc = "start"
  /\ files' = HostCopy(files)
  /\ patchPc' = "copied"
  /\ UNCHANGED <<packagesDir, packageDir, before, pkgRead, caught, fnWrote, moved,
                 patchResult, notPatchVars>>

\* host.copy rejects: nothing of the chain runs, the promise is rejected
CopyFails ==
  /\ patchPc = "start"
  /\ files' \in {files, [files EXCEPT !.orig = Garbage]}
  /\ caught' = HostError("copy")
  /\ patchResult' = Rejected(HostError("copy"))
  /\ patchPc' = "settled"
  /\ UNCHANGED <<packagesDir, packageDir, before, pkgRead, fnWrote, moved, notPatchVars>>

\* host.readJson(packageJsonPath)
ReadJson ==
  /\ patchPc = "copied"
  /\ \/ /\ pkgRead' = files.json.pkg
        /\ patchPc' = "read"
        /\ UNCHANGED caught
     \/ /\ caught' = HostError("readJson")
        /\ patchPc' = "catch"
        /\ UNCHANGED pkgRead
  /\ UNCHANGED <<packagesDir, packageDir, files, before, fnWrote, moved, patchResult,
                 notPatchVars>>

\* patchPackageJson(host, pkg): getPackages, then the deletes
PatchPackageJson ==
  /\ patchPc = "read"
  /\ \/ /\ ~patchPackageJsonThrows(pkgRead, packagesDir)
        /\ pkgRead' = patchPackageJson(pkgRead, packagesDir)
        /\ patchPc' = "patched"
        /\ UNCHANGED caught
     \/ /\ patchPackageJsonThrows(pkgRead, packagesDir)
        /\ caught' = TypeError
        /\ patchPc' = "catch"
        /\ UNCHANGED pkgRead
     \/ /\ caught' = HostError("readdir")
        /\ patchPc' = "catch"
        /\ UNCHANGED pkgRead
  /\ UNCHANGED <<packagesDir, packageDir, files, before, fnWrote, moved, patchResult,
                 notPatchVars>>

\* host.writeJson(packageJsonPath, pkg)
WriteJson ==
  /\ patchPc = "patched"
  /\ \/ /\ files' = [files EXCEPT !.json = Serialized(pkgRead)]
        /\ patchPc' = "written"
        /\ UNCHANGED caught
     \/ /\ files' \in {files, [files EXCEPT !.json = Garbage]}
        /\ caught' = HostError("writeJson")
        /\ patchPc' = "catch"
  /\ UNCHANGED <<packagesDir, packageDir, before, pkgRead, fnWrote, moved, patchResult,
                 notPatchVars>>

\* fn() is called
FnStart ==
  /\ patchPc = "written"
  /\ patchPc' = "fn"
  /\ UNCHANGED <<packagesDir, packageDir, files, before, pkgRead, caught, fnWrote,
                 moved, patchResult, notPatchVars>>

\* the wrapped operation rewrites the manifest
FnWrites ==
  /\ patchPc = "fn"
  /\ ~fnWrote
  /\ fnWrote' = TRUE
  /\ files' = [files EXCEPT !.json = FnWrite(files.json)]
  /\ UNCHANGED <<packagesDir, packageDir, before, pkgRead, patchPc, caught, moved,
                 patchResult, notPatchVars>>

\* the promise fn() returned settles
FnSettles ==
  /\ patchPc = "fn"
  /\ \/ /\ patchPc' = "move"
        /\ UNCHANGED caught
     \/ /\ caught' = HostError("fn")
        /\ patchPc' = "catch"
  /\ UNCHANGED <<packagesDir, packageDir, files, before, pkgRead, fnWrote, moved,
                 patchResult, notPatchVars>>

\* .catch(err => host.move(backup, manifest, {clobber: true}) ...
CatchMove ==
  /\ patchPc = "catch"
  /\ \/ /\ files' = HostMove(files)
        /\ moved' = moved + 1
        /\ patchPc' = "rethrow"
        /\ UNCHANGED patchResult
     \/ /\ files' \in {files, [files EXCEPT !.json = NoFile]}
        /\ patchResult' = Rejected(HostError("move"))
        /\ patchPc' = "settled"
        /\ UNCHANGED moved
  /\ UNCHANGED <<packagesDir, packageDir, before, pkgRead, caught, fnWrote, notPatchVars>>

\* ... .then(() => { throw err; })): the final then is passed over
RethrowSwallowed ==
  /\ patchPc = "rethrow"
  /\ patchPc' = "move"
  /\ UNCHANGED <<packagesDir, packageDir, files, before, pkgRead, caught, fnWrote,
                 moved, patchResult, notPatchVars>>
Rethrow ==
  /\ patchPc = "rethrow"
  /\ patchResult' = Rejected(caught)
  /\ patchPc' = "settled"
  /\ UNCHANGED <<packagesDir, packageDir, files, before, pkgRead, caught, fnWrote,
                 moved, notPatchVars>>

\* .then(() => host.move(backup, manifest, {clobber: true}))
FinalMove ==
  /\ patchPc = "move"
  /\ \/ /\ files' = HostMove(files)
        /\ moved' = moved + 1
        /\ patchResult' = Fulfilled(JSUndefined)
     \/ /\ files' \in {files, [files EXCEPT !.json = NoFile]}
        /\ patchResult' = Rejected(HostError("move"))
        /\ UNCHANGED moved
  /\ patchPc' = "settled"
  /\ UNCHANGED <<packagesDir, packageDir, before, pkgRead, caught, fnWrote, notPatchVars>>

PatchNext ==
  \/ Copy
  \/ CopyFails
  \/ ReadJson
  \/ PatchPackageJson
  \/ WriteJson
  \/ FnStart
  \/ FnWrites
  \/ FnSettles
  \/ CatchMove
  \/ Rethrow
  \/ FinalMove

SpecPatch == PatchInit /\ [][PatchNext]_vars

\* the keys of a field of a manifest object, absent counting as empty
Keys(p, field) ==
  IF field = "dependencies" THEN KeysOrEmpty(p.dependencies)
  ELSE KeysOrEmpty(p.devDependencies)
ValueOf(p, field, key) ==
  IF field = "dependencies" THEN p.dependencies.entries[key]
  ELSE p.devDependencies.entries[key]
DependencyFields == {"dependencies", "devDependencies"}

(***************************************************************************)
(* C7: withPatchedPackageJson is a round trip on the manifest.  Once it    *)
(* has settled, the manifest is byte-identical to its content before the   *)
(* call, when the wrapped operation succeeded and when reading, patching,  *)
(* writing or the wrapped operation failed; in the failing case the        *)
(* promise is rejected with the original error, and not before the         *)
(* manifest was restored.  (A run in which host.move itself rejects is     *)
(* none of these cases.)                                                   *)
(***************************************************************************)
C7_RoundTrip ==
  /\ (patchPc = "settled" /\ patchResult # Rejected(HostError("move")))
       => /\ files.json = before
          /\ caught = NoError => patchResult = Fulfilled(JSUndefined)
          /\ caught # NoError => patchResult = Rejected(caught)
  /\ (patchResult.state = "rejected" /\ patchResult # Rejected(HostError("move")))
       => files.json = before
  /\ patchPc = "rethrow" => files.json = before

\* the wrapped operation rewrote the patched manifest of a package with a
\* sibling dependency and then failed; the handwritten manifest is back
C7_Witness ==
  /\ patchPc = "settled"
  /\ patchResult = Rejected(HostError("fn"))
  /\ fnWrote
  /\ before.text = "handwritten"
  /\ Keys(before.pkg, "dependencies") \cap packagesDir # {}
  /\ files.json = before

(***************************************************************************)
(* C8: while the operation wrapped by withPatchedPackageJson runs, the     *)
(* manifest on disk has no dependencies or devDependencies entry whose key *)
(* is a package directory, every other entry of the original manifest is   *)
(* still there with its original value, and the backup holds the original  *)
(* manifest from before the manifest was first written.                    *)
(***************************************************************************)
C8_PatchedWhileRunning ==
  /\ patchPc = "fn" =>
       \A field \in DependencyFields :
         /\ Keys(files.json.pkg, field) \cap packagesDir = {}
         /\ \A key \in Keys(before.pkg, field) \ packagesDir :
              /\ key \in Keys(files.json.pkg, field)
              /\ ValueOf(files.json.pkg, field, key) = ValueOf(before.pkg, field, key)
  /\ (files.json # before /\ patchPc # "settled") => files.orig = before

\* the wrapped operation runs on a manifest that lost a sibling dependency
\* and kept the dependency on a package that is no sibling
C8_Witness ==
  /\ patchPc = "fn"
  /\ "b" \in Keys(before.pkg, "devDependencies")
  /\ "b" \in packagesDir
  /\ External \in Keys(before.pkg, "dependencies")
  /\ Keys(files.json.pkg, "devDependencies") = {}
  /\ Keys(files.json.pkg, "dependencies") = {External}
  /\ files.orig = before

\* the backup copy was made, and no move of the backup failed
BackupMade == caught # HostError("copy")
MoveFailed == patchResult = Rejected(HostError("move"))

Num(n) == [kind |-> "number", n |-> n]
Undef == [kind |-> "undefined", n |-> 0]
Inherited == [kind |-> "function", n |-> 0]

Truthy(x) == x.kind = "function" \/ (x.kind = "number" /\ x.n # 0)
\* x || y
Or(x, y) == IF Truthy(x) THEN x ELSE y
\* x > y: false unless both are numbers (a function converts to NaN)
Greater(x, y) == x.kind = "number" /\ y.kind = "number" /\ x.n > y.n

\* commit types: the two typeToReleaseIndex knows, one it does not know,
\* and one that names a member every object literal inherits
CommitTypes == {"fix", "feat", "chore", "constructor"}
ObjectPrototypeKeys == {"constructor"}

\* commit footers: none, one without and one with the marker
BreakingFooter == "BREAKING CHANGE:\nremoved x"
Footers == {"", "Closes #1", BreakingFooter}

\* Boolean(commit.footer && commit.footer.indexOf('BREAKING CHANGE:\n') > -1)
isBreakingChange(commit) == commit.footer # "" /\ commit.footer = BreakingFooter

\* typeToReleaseIndex[type] of the object literal {fix: 0, feat: 1}
typeToReleaseIndexNoFeat(type) == IF type = "fix" THEN Num(0) ELSE Undef
typeToReleaseIndex(type) ==
  IF type = "fix" THEN Num(0)
  ELSE IF type = "feat" THEN Num(1)
  ELSE IF type \in ObjectPrototypeKeys THEN Inherited
  ELSE Undef

\* the callback of data.commits.reduce
reduceRelease(rel, commit) ==
  LET result == IF Greater(rel, Or(typeToReleaseIndex(commit.type), Num(0)))
                  THEN rel
                  ELSE Or(typeToReleaseIndex(commit.type), rel)
  IN  IF isBreakingChange(commit) THEN Num(2) ELSE result

RECURSIVE reduceCommits(_, _, _)
\* data.commits.reduce(callback, 0), from index i on
reduceCommits(cs, i, rel) ==
  IF i > Len(cs) THEN rel ELSE reduceCommits(cs, i + 1, reduceRelease(rel, cs[i]))

\* releases[relaseIndex] of ['patch', 'minor', 'major']
releases(index) ==
  IF index.kind # "number" THEN "undefined"
  ELSE IF index.n = 0 THEN "patch"
  ELSE IF index.n = 1 THEN "minor"
  ELSE IF index.n = 2 THEN "major"
  ELSE "undefined"

\* semver.inc(version, release): null for an invalid increment argument
semverInc(v, rel) ==
  IF rel = "patch"
    THEN Version(v.major, v.minor, IF v.pre = "" THEN v.patch + 1 ELSE v.patch, "")
  ELSE IF rel = "minor"
    THEN Version(v.major, IF v.patch # 0 \/ v.pre = "" THEN v.minor + 1 ELSE v.minor, 0, "")
  ELSE IF rel = "major"
    THEN Version(IF v.minor # 0 \/ v.patch # 0 \/ v.pre = "" THEN v.major + 1 ELSE v.major,
                 0, 0, "")
  ELSE NullVersion

\* if (data.lastVersion) semver.inc(data.lastVersion, data.release)
\* else data.pkg.version
nextVersionOfManifest(last, manifestVersion, rel) ==
  IF manifestVersion.t = "version" THEN semverInc(manifestVersion, rel) ELSE NullVersion
nextVersionOf(last, manifestVersion, rel) ==
  IF last.t = "version" THEN semverInc(last, rel) ELSE manifestVersion

Commits == [type : CommitTypes, footer : Footers]
CommitLists == UNION {[1 .. k -> Commits] : k \in 0 .. MaxCommits}
PreTags == {"", "beta"}
Versions ==
  {Version(x, y, z, pre) : x \in 0 .. MaxVer, y \in 0 .. MaxVer, z \in 0 .. MaxVer,
                           pre \in PreTags}

VerInit ==
  /\ FeIdle
  /\ SortIdle
  /\ PatchIdle
  /\ CmdIdle
  /\ RwIdle
  /\ RunIdle
  /\ BootIdle
  /\ RerunIdle
  /\ verPc = "start"
  /\ commits \in CommitLists
  /\ lastVersion \in Versions \cup {NoVersion}
  /\ pkgVersion \in {Version(0, MaxVer, 0, ""), Version(MaxVer, 0, 0, "beta")}
  /\ release = ""
  /\ nextVersion = NoVersion

GetNextVersion ==
  /\ verPc = "start"
  /\ release' = releases(reduceCommits(commits, 1, Num(0)))
  /\ nextVersion' = nextVersionOf(lastVersion, pkgVersion, release')
  /\ verPc' = "done"
  /\ UNCHANGED <<commits, lastVersion, pkgVersion, notVerVars>>

VerNext == GetNextVersion

SpecVersion == VerInit /\ [][VerNext]_vars

\* semantic-version precedence: a > b
SemverGt(a, b) ==
  \/ a.major > b.major
  \/ a.major = b.major /\ a.minor > b.minor
  \/ a.major = b.major /\ a.minor = b.minor /\ a.patch > b.patch
  \/ /\ a.major = b.major /\ a.minor = b.minor /\ a.patch = b.patch
     /\ a.pre = "" /\ b.pre # ""

AnyBreaking == \E i \in 1 .. Len(commits) : isBreakingChange(commits[i])
AnyFeat == \E i \in 1 .. Len(commits) : commits[i].type = "feat"

(***************************************************************************)
(* C9: the bump inference of getNextVersion returns the maximum escalation *)
(* over all kept commits, whatever their order: major if any commit is a   *)
(* breaking change, otherwise minor if any commit has type feat, otherwise *)
(* patch; fix and unrecognised types never escalate.                       *)
(***************************************************************************)
C9_MaxEscalation ==
  verPc = "done" =>
    release = IF AnyBreaking THEN "major"
              ELSE IF AnyFeat THEN "minor"
              ELSE "patch"

(***************************************************************************)
(* C10, as claimed: when a last published version exists and a bump kind   *)
(* was inferred, nextVersion is that version with patch: z+1; minor: y+1   *)
(* and z=0; major: x+1 and y=z=0.                                          *)
(***************************************************************************)
C10_PlainIncrement ==
  (verPc = "done" /\ lastVersion.t = "version" /\ release \in {"patch", "minor", "major"})
    => /\ nextVersion.t = "version"
       /\ release = "patch" =>
            /\ nextVersion.major = lastVersion.major
            /\ nextVersion.minor = lastVersion.minor
            /\ nextVersion.patch = lastVersion.patch + 1
       /\ release = "minor" =>
            /\ nextVersion.major = lastVersion.major
            /\ nextVersion.minor = lastVersion.minor + 1
            /\ nextVersion.patch = 0
       /\ release = "major" =>
            /\ nextVersion.major = lastVersion.major + 1
            /\ nextVersion.minor = 0
            /\ nextVersion.patch = 0

(***************************************************************************)
(* C10, amended: when a last published version exists, nextVersion is      *)
(* semver.inc of it by the inferred bump kind.  For a version without      *)
(* pre-release part that is patch: z+1; minor: y+1 and z=0; major: x+1 and *)
(* y=z=0.  For a pre-release version x.y.z-pre the pre-release part is     *)
(* dropped and a number is only incremented when the release it is the     *)
(* pre-release of is not of that kind: patch gives x.y.z; minor gives      *)
(* x.y.z when z=0, else x.(y+1).0; major gives x.y.z when y=z=0, else      *)
(* (x+1).0.0.  With a bump kind nextVersion is always higher than the last *)
(* published version; when no bump kind was inferred it is null.           *)
(***************************************************************************)
C10_SemverIncrement ==
  (verPc = "done" /\ lastVersion.t = "version") =>
    LET x == lastVersion.major
        y == lastVersion.minor
        z == lastVersion.patch
        plain == lastVersion.pre = ""
    IN  /\ release = "patch" =>
             nextVersion = Version(x, y, IF plain THEN z + 1 ELSE z, "")
        /\ release = "minor" =>
             nextVersion = IF plain \/ z # 0 THEN Version(x, y + 1, 0, "")
                           ELSE Version(x, y, z, "")
        /\ release = "major" =>
             nextVersion = IF plain \/ y # 0 \/ z # 0 THEN Version(x + 1, 0, 0, "")
                           ELSE Version(x, y, z, "")
        /\ release \in {"patch", "minor", "major"} => SemverGt(nextVersion, lastVersion)
        /\ release \notin {"patch", "minor", "major"} => nextVersion = NullVersion

\* a patch bump of the pre-release 1.0.0-beta gave 1.0.0, while the manifest
\* declares another version
C10_Witness ==
  /\ verPc = "done"
  /\ lastVersion = Version(1, 0, 0, "beta")
  /\ pkgVersion # lastVersion
  /\ release = "patch"
  /\ nextVersion = Version(1, 0, 0, "")


(***************************************************************************)
(* The commands release and publish, as runOnPackages applies them to one  *)
(* package.  What the registry, git, npm and the file system answer is     *)
(* chosen when the command asks.                                           *)
(***************************************************************************)
PackageDir == "a"     \* the directory under packages/ the command is applied to
PackageName == "a"    \* the name field of its manifest and registry entry
Hashes == <<"h1", "h2", "h3", "h4", "h5", "h6">>
FirstHash == "h0"     \* the commit without parents

\* cwd of git(dir, ...) and npm(dir, ...): path.join(packagesDirectory, dir),
\* relative to process.cwd()
CwdOfPackage(dir) == "packages/" \o PackageDir
Cwd(dir) ==
  IF dir = ".." THEN "."
  ELSE IF dir = "../publish-temp" THEN "publish-temp"
  ELSE IF dir = "../publish-temp/packages/" \o PackageDir
    THEN "publish-temp/packages/" \o PackageDir
  ELSE "packages/" \o dir

Call(op, dir, arg) == [op |-> op, cwd |-> Cwd(dir), arg |-> arg]

\* `${version}`
VersionText(v) ==
  IF v.t = "version"
    THEN ToString(v.major) \o "." \o ToString(v.minor) \o "." \o ToString(v.patch)
         \o (IF v.pre = "" THEN "" ELSE "-" \o v.pre)
  ELSE v.t

\* what the registry client hands to the callback of client.get
PublishedVersions == {Version(MaxVer, 0, 0, ""), Version(MaxVer, MaxVer, 0, "")}
RegistryData ==
  [present : {TRUE}, latest : PublishedVersions \cup {NoVersion},
   next : {NoVersion, Version(MaxVer, MaxVer, 0, "")}, gitHead : {"", "g1"}]
RegistryAnswers ==
  [err : {""}, statusCode : {0}, data : RegistryData]
    \cup [err : {"E404"}, statusCode : {404}, data : {NoNpm}]
    \cup [err : {"E500"}, statusCode : {500}, data : {NoNpm}]
    \cup [err : {"ETIMEDOUT"}, statusCode : {0}, data : {NoNpm}]

\* the callback of client.get in remoteNpmGet
remoteNpmGetRejectsAll(answer) ==
  IF answer.err # "" THEN Rejected(JSError(answer.err)) ELSE Fulfilled(JSTrue)
remoteNpmGet(answer) ==
  IF answer.err # ""
    THEN IF answer.statusCode = 404 THEN Fulfilled(JSUndefined)
         ELSE Rejected(JSError(answer.err))
  ELSE Fulfilled(JSTrue)

\* a member every object inherits, looked up as if it were a dist-tag
InheritedMember == [t |-> "function", major |-> 0, minor |-> 0, patch |-> 0, pre |-> ""]

\* data.npm['dist-tags'][tag]
distTags(data, t) ==
  IF t = "latest" THEN data.latest
  ELSE IF t = "next" THEN data.next
  ELSE IF t \in ObjectPrototypeKeys THEN InheritedMember
  ELSE NoVersion

\* (data.pkg.publishConfig || {}).tag || 'latest'
distTagOf(publishConfigTag) == IF publishConfigTag # "" THEN publishConfigTag ELSE "latest"

\* the second .then of getReleaseData: lastVersion and lastGitHash from the
\* registry data; threw when data.npm.versions has no entry to read gitHead of
getReleaseData(data, publishConfigTag) ==
  LET last == distTags(data, distTagOf(publishConfigTag))
  IN  IF ~data.present
        THEN [threw |-> FALSE, lastVersion |-> NoVersion, lastGitHash |-> ""]
      ELSE IF last.t = "undefined"
        THEN [threw |-> FALSE, lastVersion |-> last, lastGitHash |-> ""]
      ELSE IF last.t # "version"
        THEN [threw |-> TRUE, lastVersion |-> last, lastGitHash |-> ""]
      ELSE [threw |-> FALSE, lastVersion |-> last,
            lastGitHash |-> IF data.gitHead # "" THEN data.gitHead
                            ELSE PackageName \o "-" \o VersionText(last)]

\* the commit messages of the model and what conventionalCommitsParser.sync
\* makes of them; scope "" stands for null
RawMessages == {"feat(a): add x", "feat(b): add y", "chore: tidy"}
conventionalCommitsParser(raw) ==
  IF raw = "feat(a): add x"
    THEN [type |-> "feat", scope |-> "a", header |-> raw, footer |-> ""]
  ELSE IF raw = "feat(b): add y"
    THEN [type |-> "feat", scope |-> "b", header |-> raw, footer |-> ""]
  ELSE [type |-> "", scope |-> "", header |-> raw, footer |-> ""]

\* what git log prints: for every entry `%h==HASH==%B==END==` and a newline
GitLogs == UNION {[1 .. k -> RawMessages] : k \in 0 .. MaxCommits}
EmptyChunk == [hash |-> "", rawMessage |-> ""]
\* stdout.split('==END==\n'), split at '==HASH==': the empty output gives
\* one empty chunk
SplitLog(out) ==
  IF out = <<>> THEN <<EmptyChunk>>
  ELSE [i \in 1 .. Len(out) |-> [hash |-> Hashes[i], rawMessage |-> out[i]]]

\* seq.filter(keep)
RECURSIVE FilterSeq(_, _, _)
FilterSeq(seq, keep, i) ==
  IF i > Len(seq) THEN <<>>
  ELSE (IF seq[i] \in keep THEN <<seq[i]>> ELSE <<>>) \o FilterSeq(seq, keep, i + 1)

\* the commit message of a chunk, with its hash
MessageOf(chunk) ==
  LET m == conventionalCommitsParser(chunk.rawMessage)
  IN  [type |-> m.type, scope |-> m.scope, header |-> m.header, footer |-> m.footer,
       hash |-> chunk.hash, updatesPackageJson |-> JSUndefined]

\* commits.filter(commit => commit.scope === packageDir)
ScopeFilterAny(m, dir) == m.scope # ""
ScopeFilter(m, dir) == m.scope = dir

\* the .then chain of getReleaseCommits from the stdout of git log to
\* data.commits
keptCommits(out, dir) ==
  LET chunks == SplitLog(out)
      nonEmpty == FilterSeq(chunks, {c \in {chunks[i] : i \in 1 .. Len(chunks)} :
                                       c # EmptyChunk}, 1)
      messages == [i \in 1 .. Len(nonEmpty) |-> MessageOf(nonEmpty[i])]
  IN  FilterSeq(messages, {m \in {messages[i] : i \in 1 .. Len(messages)} :
                             ScopeFilter(m, dir)}, 1)

JSBool(b) == IF b THEN JSTrue ELSE JSFalse

\* data.requireRelease = data.commits.length > 0
requireReleaseAlways(cs) == JSTrue
requireReleaseOf(cs) == JSBool(Len(cs) > 0)


\* the steps of runCommandPublish whose rejection the .catch receives
PublishGuarded ==
  {"tagList", "revList", "commits", "show", "find", "tagCreate", "push", "remote",
   "clone", "checkout", "install", "npmPublish", "remove"}

\* a step made a host call and its promise chain goes on at pc
Step(pc, call) ==
  /\ cmdPc' = pc
  /\ effects' = Append(effects, call)
  /\ UNCHANGED <<cmdErr, cmdResult>>

\* a step without host call
StepPure(pc) ==
  /\ cmdPc' = pc
  /\ UNCHANGED <<effects, cmdErr, cmdResult>>

\* where a rejection goes: to the .catch of publish if the step is inside
\* it, otherwise to the promise the command returned
Raise(err) ==
  IF command = "publish" /\ cmdPc \in PublishGuarded
    THEN /\ cmdErr' = err
         /\ cmdPc' = "catch"
         /\ UNCHANGED cmdResult
    ELSE /\ cmdResult' = Rejected(err)
         /\ cmdPc' = "settled"
         /\ UNCHANGED cmdErr

\* a host call failed
Throw(err, call) ==
  /\ effects' = Append(effects, call)
  /\ Raise(err)

\* the command's promise is fulfilled
Settle(value) ==
  /\ cmdResult' = Fulfilled(value)
  /\ cmdPc' = "settled"
  /\ UNCHANGED cmdErr

ManifestTags == {"", "next", "constructor"}
ManifestVersions == PublishedVersions \cup {Version(MaxVer, 0, 0, "beta")}

CmdInit ==
  /\ FeIdle
  /\ SortIdle
  /\ PatchIdle
  /\ VerIdle
  /\ RwIdle
  /\ RunIdle
  /\ BootIdle
  /\ RerunIdle
  /\ command \in {"release", "publish"}
  /\ cmdPc = IF command = "release" THEN "status" ELSE "npmGet"
  /\ pkgTag \in ManifestTags
  /\ diskVersion \in ManifestVersions
  /\ npm = NoNpm
  /\ tag = ""
  /\ lastGitHash = ""
  /\ requireRelease = JSUndefined
  /\ gitLogOut = <<>>
  /\ tagList = {}
  /\ tempDir = FALSE
  /\ effects = <<>>
  /\ cmdErr = NoError
  /\ cmdResult = Pending
  /\ nextInvoked = FALSE

\* runCommandRelease: git('..', 'status --porcelain') and the test of stdout
GitStatusCall == Call("git", "..", "status --porcelain")
NotClean == JSError("Git workspace not clean!")
GitStatusAfterFetch ==
  /\ cmdPc = "status"
  /\ effects' = effects \o
       <<Call("registry.get", PackageDir, "https://registry.npmjs.org/" \o PackageDir),
         GitStatusCall>>
  /\ Raise(NotClean)
  /\ UNCHANGED <<command, pkgTag, diskVersion, npm, tag, lastGitHash, requireRelease,
                 gitLogOut, tagList, tempDir, nextInvoked, verVars, notCmdVars>>
GitStatus ==
  /\ cmdPc = "status"
  /\ \E outcome \in {"clean", "dirty", "failed"} :
       LET call == GitStatusCall
       IN  IF outcome = "clean" THEN Step("npmGet", call)
           ELSE IF outcome = "dirty"
             THEN Throw(NotClean, call)
           ELSE Throw(HostError("git status"), call)
  /\ UNCHANGED <<command, pkgTag, diskVersion, npm, tag, lastGitHash, requireRelease,
                 gitLogOut, tagList, tempDir, nextInvoked, verVars, notCmdVars>>

\* remoteNpmGet(packageDir)
RemoteNpmGet ==
  /\ cmdPc = "npmGet"
  /\ \E answer \in RegistryAnswers :
       LET call == Call("registry.get", PackageDir, "https://registry.npmjs.org/" \o PackageDir)
           promise == remoteNpmGet(answer)
       IN  IF promise.state = "fulfilled"
             THEN /\ Step("releaseData", call)
                  /\ npm' = IF promise.value = JSUndefined THEN NoNpm ELSE answer.data
             ELSE /\ Throw(promise.value, call)
                  /\ UNCHANGED npm
  /\ UNCHANGED <<command, pkgTag, diskVersion, tag, lastGitHash, requireRelease,
                 gitLogOut, tagList, tempDir, nextInvoked, verVars, notCmdVars>>

\* the step after getReleaseData
AfterReleaseData == IF command = "release" THEN "commits" ELSE "publishCheck"

\* getReleaseData: getPackageJson and the .then that reads the registry data
GetReleaseData ==
  /\ cmdPc = "releaseData"
  /\ \E readOk \in BOOLEAN :
       LET call == Call("fsReadJson", PackageDir, "package.json")
           got == getReleaseData(npm, pkgTag)
       IN  IF ~readOk
             THEN /\ Throw(HostError("readJson"), call)
                  /\ UNCHANGED <<tag, lastGitHash, lastVersion, pkgVersion>>
           ELSE IF got.threw
             THEN /\ Throw(TypeError, call)
                  /\ pkgVersion' = diskVersion
                  /\ tag' = distTagOf(pkgTag)
                  /\ lastVersion' = got.lastVersion
                  /\ UNCHANGED lastGitHash
           ELSE /\ Step(IF got.lastGitHash = "" THEN "firstCommit" ELSE AfterReleaseData,
                        call)
                /\ pkgVersion' = diskVersion
                /\ tag' = distTagOf(pkgTag)
                /\ lastVersion' = got.lastVersion
                /\ lastGitHash' = got.lastGitHash
  /\ UNCHANGED <<command, pkgTag, diskVersion, npm, requireRelease, gitLogOut, tagList,
                 tempDir, nextInvoked, verPc, commits, release, nextVersion, notCmdVars>>

\* getReleaseData: if (!data.lastGitHash) git rev-list --max-parents=0 HEAD
FirstCommit ==
  /\ cmdPc = "firstCommit"
  /\ \E ok \in BOOLEAN :
       LET call == Call("git", PackageDir, "rev-list --abbrev-commit --max-parents=0 HEAD")
       IN  IF ok
             THEN /\ Step(AfterReleaseData, call)
                  /\ lastGitHash' = FirstHash
             ELSE /\ Throw(HostError("git rev-list --max-parents=0"), call)
                  /\ UNCHANGED lastGitHash
  /\ UNCHANGED <<command, pkgTag, diskVersion, npm, tag, requireRelease, gitLogOut,
                 tagList, tempDir, nextInvoked, verVars, notCmdVars>>

\* git(packageDir, `log ... ${data.lastGitHash}..HEAD -- .`)
GitLogCall ==
  Call("git", PackageDir,
       "log --extended-regexp --format=%h==HASH==%B==END== " \o lastGitHash \o "..HEAD -- .")

\* getReleaseCommits: git log and the .then chain up to data.requireRelease
GetReleaseCommits ==
  /\ cmdPc = "commits"
  /\ \E ok \in BOOLEAN, out \in GitLogs :
       LET call == GitLogCall
       IN  IF ok
             THEN /\ Step("show", call)
                  /\ gitLogOut' = out
                  /\ commits' = keptCommits(out, PackageDir)
                  /\ requireRelease' = requireReleaseOf(commits')
             ELSE /\ out = <<>>
                  /\ Throw(HostError("git log"), call)
                  /\ UNCHANGED <<gitLogOut, commits, requireRelease>>
  /\ UNCHANGED <<command, pkgTag, diskVersion, npm, tag, lastGitHash, tagList, tempDir,
                 nextInvoked, verPc, lastVersion, pkgVersion, release, nextVersion,
                 notCmdVars>>

\* the git show calls of the first k commits
ShowCalls(k) == [i \in 1 .. k |-> Call("git", PackageDir, "show " \o commits[i].hash)]

\* getReleaseCommits: forEach(data.commits, didUpdatePackageJson)
DidUpdatePackageJson ==
  /\ cmdPc = "show"
  /\ \E failAt \in 0 .. Len(commits), found \in [1 .. Len(commits) -> BOOLEAN] :
       IF failAt = 0
         THEN /\ cmdPc' = IF command = "release" THEN "nextVersion" ELSE "find"
              /\ effects' = effects \o ShowCalls(Len(commits))
              /\ UNCHANGED <<cmdErr, cmdResult>>
              /\ commits' = [i \in 1 .. Len(commits) |->
                               [commits[i] EXCEPT !.updatesPackageJson = JSBool(found[i])]]
         ELSE /\ \A i \in failAt .. Len(commits) : ~found[i]
              /\ effects' = effects \o ShowCalls(failAt)
              /\ Raise(HostError("git show"))
              /\ commits' = [i \in 1 .. Len(commits) |->
                               IF i < failAt
                                 THEN [commits[i] EXCEPT
                                         !.updatesPackageJson = JSBool(found[i])]
                                 ELSE commits[i]]
  /\ UNCHANGED <<command, pkgTag, diskVersion, npm, tag, lastGitHash, requireRelease,
                 gitLogOut, tagList, tempDir, nextInvoked, verPc, lastVersion, pkgVersion,
                 release, nextVersion, notCmdVars>>

\* getNextVersion, as a step of the release command
ReleaseGetNextVersion ==
  /\ cmdPc = "nextVersion"
  /\ StepPure("decide")
  /\ release' = releases(reduceCommits(commits, 1, Num(0)))
  /\ nextVersion' = nextVersionOf(lastVersion, pkgVersion, release')
  /\ UNCHANGED <<command, pkgTag, diskVersion, npm, tag, lastGitHash, requireRelease,
                 gitLogOut, tagList, tempDir, nextInvoked, verPc, commits, lastVersion,
                 pkgVersion, notCmdVars>>


\* runCommandRelease: if (data.requireRelease) ... else return true
ReleaseDecide ==
  /\ cmdPc = "decide"
  /\ IF ~Falsy(requireRelease)
       THEN StepPure("increment")
       ELSE Settle(JSTrue) /\ UNCHANGED effects
  /\ UNCHANGED <<command, pkgTag, diskVersion, npm, tag, lastGitHash, requireRelease,
                 gitLogOut, tagList, tempDir, nextInvoked, verVars, notCmdVars>>

\* the version pattern of incrementPackageVersion, \d+(?:\.\d+(?:\.\d+)?)?
\* between the quotes, matches a version without pre-release part only
VersionPatternMatches(v) == v.t = "version" /\ v.pre = ""

\* incrementPackageVersion: updatePackageJson with the version replaced
IncrementPackageVersion ==
  /\ cmdPc = "increment"
  /\ \E outcome \in {"ok", "readFailed", "writeFailed"} :
       LET read == Call("fsReadfile", PackageDir, "package.json")
           write == Call("fsOutputFile", PackageDir, "package.json")
       IN  IF outcome = "readFailed"
             THEN Throw(HostError("readFile"), read) /\ UNCHANGED diskVersion
           ELSE IF outcome = "writeFailed"
             THEN /\ effects' = effects \o <<read, write>>
                  /\ Raise(HostError("outputFile"))
                  /\ UNCHANGED diskVersion
           ELSE /\ effects' = effects \o <<read, write>>
                /\ cmdPc' = "updateDeps"
                /\ UNCHANGED <<cmdErr, cmdResult>>
                /\ diskVersion' = IF VersionPatternMatches(diskVersion)
                                    THEN nextVersion ELSE diskVersion
  /\ UNCHANGED <<command, pkgTag, npm, tag, lastGitHash, requireRelease, gitLogOut,
                 tagList, tempDir, nextInvoked, verVars, notCmdVars>>

\* updateDependencies: the manifest is written once for every sibling the
\* package declares
UpdateDependencies ==
  /\ cmdPc = "updateDeps"
  /\ \E outcome \in {"none", "written", "failed"} :
       LET readdir == Call("fsReaddir", "", "")
           write == Call("fsOutputFile", PackageDir, "package.json")
       IN  IF outcome = "failed" THEN Throw(HostError("updateDependencies"), readdir)
           ELSE /\ effects' = effects \o
                               (IF outcome = "written" THEN <<readdir, write>> ELSE <<readdir>>)
                /\ cmdPc' = "runRelease"
                /\ UNCHANGED <<cmdErr, cmdResult>>
  /\ UNCHANGED <<command, pkgTag, diskVersion, npm, tag, lastGitHash, requireRelease,
                 gitLogOut, tagList, tempDir, nextInvoked, verVars, notCmdVars>>

\* runCommandNpmRun(packageDir, task)
RunCommandNpmRun(pc, task, nextPc) ==
  /\ cmdPc = pc
  /\ \E outcome \in {"noTask", "ok", "readFailed", "failed"} :
       LET read == Call("fsReadJson", PackageDir, "package.json")
           run == Call("npm", PackageDir, "run " \o task)
       IN  IF outcome = "readFailed" THEN Throw(HostError("readJson"), read)
           ELSE IF outcome = "noTask" THEN Step(nextPc, read)
           ELSE IF outcome = "ok"
             THEN /\ effects' = effects \o <<read, run>>
                  /\ cmdPc' = nextPc
                  /\ UNCHANGED <<cmdErr, cmdResult>>
           ELSE /\ effects' = effects \o <<read, run>>
                /\ Raise(HostError("npm run " \o task))
  /\ UNCHANGED <<command, pkgTag, diskVersion, npm, tag, lastGitHash, requireRelease,
                 gitLogOut, tagList, tempDir, nextInvoked, verVars, notCmdVars>>

RunReleaseScript == RunCommandNpmRun("runRelease", "release", "runTest")
RunTestScriptFailureCommits ==
  /\ cmdPc = "runTest"
  /\ effects' = effects \o <<Call("fsReadJson", PackageDir, "package.json"),
                              Call("npm", PackageDir, "run test"),
                              Call("git", "..", "add ."),
                              Call("git", "..", "commit -m chore(" \o PackageDir
                                                 \o "): releases " \o VersionText(nextVersion))>>
  /\ Raise(HostError("npm run test"))
  /\ UNCHANGED <<command, pkgTag, diskVersion, npm, tag, lastGitHash, requireRelease,
                 gitLogOut, tagList, tempDir, nextInvoked, verVars, notCmdVars>>
RunTestScript == RunCommandNpmRun("runTest", "test", "statusAfter")

\* runCommandRelease: the second git status; nothing to commit returns true
GitStatusAfter ==
  /\ cmdPc = "statusAfter"
  /\ \E outcome \in {"clean", "dirty", "failed"} :
       LET call == Call("git", "..", "status --porcelain")
       IN  IF outcome = "dirty" THEN Step("add", call)
           ELSE IF outcome = "clean"
             THEN /\ effects' = Append(effects, call)
                  /\ Settle(JSTrue)
           ELSE Throw(HostError("git status"), call)
  /\ UNCHANGED <<command, pkgTag, diskVersion, npm, tag, lastGitHash, requireRelease,
                 gitLogOut, tagList, tempDir, nextInvoked, verVars, notCmdVars>>

\* runCommandRelease: git add .
GitAdd ==
  /\ cmdPc = "add"
  /\ \E ok \in BOOLEAN :
       LET call == Call("git", "..", "add .")
       IN  IF ok THEN Step("commit", call) ELSE Throw(HostError("git add"), call)
  /\ UNCHANGED <<command, pkgTag, diskVersion, npm, tag, lastGitHash, requireRelease,
                 gitLogOut, tagList, tempDir, nextInvoked, verVars, notCmdVars>>

\* runCommandRelease: git commit -m "chore(<dir>): releases <version> ..."
GitCommitCall ==
  Call("git", "..", "commit -m chore(" \o PackageDir \o "): releases "
                     \o VersionText(nextVersion))
GitCommitGoesOn ==
  /\ cmdPc = "commit"
  /\ effects' = Append(effects, GitCommitCall)
  /\ Settle(JSTrue)
  /\ UNCHANGED <<command, pkgTag, diskVersion, npm, tag, lastGitHash, requireRelease,
                 gitLogOut, tagList, tempDir, nextInvoked, verVars, notCmdVars>>
GitCommit ==
  /\ cmdPc = "commit"
  /\ \E ok \in BOOLEAN :
       LET call == GitCommitCall
       IN  IF ok
             THEN /\ effects' = Append(effects, call)
                  /\ Settle(JSFalse)
             ELSE Throw(HostError("git commit"), call)
  /\ UNCHANGED <<command, pkgTag, diskVersion, npm, tag, lastGitHash, requireRelease,
                 gitLogOut, tagList, tempDir, nextInvoked, verVars, notCmdVars>>

\* runOnPackages: what forEach does with the promise of the command when
\* another package follows
RunOnNextPackage ==
  /\ cmdPc = "settled"
  /\ IF cmdResult.state = "rejected"
       THEN cmdPc' = "aborted" /\ UNCHANGED nextInvoked
     ELSE IF ContinueReduceIsFalse(cmdResult.value)
       THEN cmdPc' = "skipped" /\ UNCHANGED nextInvoked
     ELSE cmdPc' = "next" /\ nextInvoked' = TRUE
  /\ UNCHANGED <<command, pkgTag, diskVersion, npm, tag, lastGitHash, requireRelease,
                 gitLogOut, tagList, tempDir, effects, cmdErr, cmdResult, verVars,
                 notCmdVars>>

ReleaseNext ==
  \/ GitStatus
  \/ ReleaseGetNextVersion
  \/ ReleaseDecide
  \/ IncrementPackageVersion
  \/ UpdateDependencies
  \/ RunReleaseScript
  \/ RunTestScript
  \/ GitStatusAfter
  \/ GitAdd
  \/ GitCommit


\* `${data.pkg.name}-${data.pkg.version}`
ReleaseTag == PackageName \o "-" \o VersionText(pkgVersion)
\* a tag name that differs from the release tag where that has its first dot
LookAlikeTag ==
  PackageName \o "-" \o ToString(pkgVersion.major) \o "x" \o ToString(pkgVersion.minor)
    \o "." \o ToString(pkgVersion.patch)
    \o (IF pkgVersion.pre = "" THEN "" ELSE "-" \o pkgVersion.pre)
TagUniverse == {ReleaseTag, LookAlikeTag, "unrelated"}

\* stdout.match(new RegExp(`^${tag}$`, 'm')): a dot of the tag name matches
\* any character of a listed line
TagPatternNever(listed) == FALSE
TagPattern(listed) == \E line \in listed : line = ReleaseTag \/ line = LookAlikeTag

\* runCommandPublish: if (data.lastVersion === data.pkg.version) return true
PublishCheckNever == FALSE
PublishCheck == lastVersion = pkgVersion

AlreadyPublished ==
  /\ cmdPc = "publishCheck"
  /\ IF PublishCheck
       THEN Settle(JSTrue) /\ UNCHANGED effects
       ELSE StepPure("tagList")
  /\ UNCHANGED <<command, pkgTag, diskVersion, npm, tag, lastGitHash, requireRelease,
                 gitLogOut, tagList, tempDir, nextInvoked, verVars, notCmdVars>>

\* runCommandPublish: git(packageDir, 'tag') and the match of the tag
GitTag ==
  /\ cmdPc = "tagList"
  /\ \E ok \in BOOLEAN, listed \in SUBSET TagUniverse :
       LET call == Call("git", PackageDir, "tag")
       IN  IF ok
             THEN /\ Step(IF TagPattern(listed) THEN "revList" ELSE "commits", call)
                  /\ tagList' = listed
             ELSE /\ listed = {}
                  /\ Throw(HostError("git tag"), call)
                  /\ UNCHANGED tagList
  /\ UNCHANGED <<command, pkgTag, diskVersion, npm, tag, lastGitHash, requireRelease,
                 gitLogOut, tempDir, nextInvoked, verVars, notCmdVars>>

\* runCommandPublish: git rev-list -n 1 <tag> of the tag found in the list;
\* git knows the name only if that very tag exists
GitRevList ==
  /\ cmdPc = "revList"
  /\ \E ok \in BOOLEAN :
       LET call == Call("git", PackageDir, "rev-list --abbrev-commit -n 1 " \o ReleaseTag)
       IN  IF ok /\ ReleaseTag \in tagList
             THEN Step("push", call)
             ELSE Throw(HostError("git rev-list"), call)
  /\ UNCHANGED <<command, pkgTag, diskVersion, npm, tag, lastGitHash, requireRelease,
                 gitLogOut, tagList, tempDir, nextInvoked, verVars, notCmdVars>>

\* data.commits.find(commit => commit.updatesPackageJson || false): the index
\* of the commit found, 0 if none
RECURSIVE FindFrom(_, _)
FindFrom(cs, i) ==
  IF i > Len(cs) THEN 0
  ELSE IF ~Falsy(cs[i].updatesPackageJson) THEN i
  ELSE FindFrom(cs, i + 1)
RECURSIVE FindLastFrom(_, _)
FindLastFrom(cs, i) ==
  IF i < 1 THEN 0
  ELSE IF ~Falsy(cs[i].updatesPackageJson) THEN i
  ELSE FindLastFrom(cs, i - 1)
ReleaseCommitOldest(cs) == FindLastFrom(cs, Len(cs))
ReleaseCommit(cs) == FindFrom(cs, 1)

\* runCommandPublish: if (!commit) throw new Error('No release commit found')
FindReleaseCommit ==
  /\ cmdPc = "find"
  /\ IF ReleaseCommit(commits) = 0
       THEN Raise(JSError("No release commit found")) /\ UNCHANGED effects
       ELSE StepPure("tagCreate")
  /\ UNCHANGED <<command, pkgTag, diskVersion, npm, tag, lastGitHash, requireRelease,
                 gitLogOut, tagList, tempDir, nextInvoked, verVars, notCmdVars>>

\* runCommandPublish: git('..', `tag ${tag} ${commit.hash}`)
GitTagCreate ==
  /\ cmdPc = "tagCreate"
  /\ \E ok \in BOOLEAN :
       LET call == Call("git", "..", "tag " \o ReleaseTag \o " "
                                       \o commits[ReleaseCommit(commits)].hash)
       IN  IF ok
             THEN Step("push", call)
             ELSE Throw(HostError("git tag " \o ReleaseTag), call)
  /\ UNCHANGED <<command, pkgTag, diskVersion, npm, tag, lastGitHash, requireRelease,
                 gitLogOut, tagList, tempDir, nextInvoked, verVars, notCmdVars>>

\* a git or npm call of runCommandPublish that changes nothing the model
\* keeps
PublishCall(pc, op, dir, arg, nextPc) ==
  /\ cmdPc = pc
  /\ \E ok \in BOOLEAN :
       IF ok THEN Step(nextPc, Call(op, dir, arg))
       ELSE Throw(HostError(op \o " " \o arg), Call(op, dir, arg))
  /\ UNCHANGED <<command, pkgTag, diskVersion, npm, tag, lastGitHash, requireRelease,
                 gitLogOut, tagList, tempDir, nextInvoked, verVars, notCmdVars>>

GitPushTags == PublishCall("push", "git", "..", "push --tags", "remote")

\* runCommandPublish: git remote -v and the match that takes the url
GitRemote ==
  /\ cmdPc = "remote"
  /\ \E outcome \in {"url", "noMatch", "failed"} :
       LET call == Call("git", "..", "remote -v")
       IN  IF outcome = "url" THEN Step("clone", call)
           ELSE IF outcome = "noMatch" THEN Throw(TypeError, call)
           ELSE Throw(HostError("git remote"), call)
  /\ UNCHANGED <<command, pkgTag, diskVersion, npm, tag, lastGitHash, requireRelease,
                 gitLogOut, tagList, tempDir, nextInvoked, verVars, notCmdVars>>

\* runCommandPublish: git clone <url> publish-temp; a failed clone may leave
\* the directory behind
GitClone ==
  /\ cmdPc = "clone"
  /\ \E ok \in BOOLEAN, left \in BOOLEAN :
       LET call == Call("git", "..", "clone url publish-temp")
       IN  IF ok
             THEN /\ left
                  /\ Step("checkout", call)
                  /\ tempDir' = TRUE
             ELSE /\ Throw(HostError("git clone"), call)
                  /\ tempDir' = left
  /\ UNCHANGED <<command, pkgTag, diskVersion, npm, tag, lastGitHash, requireRelease,
                 gitLogOut, tagList, nextInvoked, verVars, notCmdVars>>

GitCheckout ==
  PublishCall("checkout", "git", "../publish-temp", "checkout " \o ReleaseTag, "install")
NpmInstall ==
  PublishCall("install", "npm", "../publish-temp/packages/" \o PackageDir, "install",
              "npmPublish")
NpmPublish ==
  PublishCall("npmPublish", "npm", "../publish-temp/packages/" \o PackageDir, "publish",
              "remove")

RemoveCall == [op |-> "fsRemove", cwd |-> ".", arg |-> "publish-temp"]

\* runCommandPublish: fsRemove(publish-temp) after npm publish, then false
RemoveTempGoesOn ==
  /\ cmdPc = "remove"
  /\ effects' = Append(effects, RemoveCall)
  /\ Settle(JSUndefined)
  /\ tempDir' = FALSE
  /\ UNCHANGED <<command, pkgTag, diskVersion, npm, tag, lastGitHash, requireRelease,
                 gitLogOut, tagList, nextInvoked, verVars, notCmdVars>>
RemoveTemp ==
  /\ cmdPc = "remove"
  /\ \E ok \in BOOLEAN :
       IF ok
         THEN /\ effects' = Append(effects, RemoveCall)
              /\ Settle(JSFalse)
              /\ tempDir' = FALSE
         ELSE /\ Throw(HostError("remove"), RemoveCall)
              /\ UNCHANGED tempDir
  /\ UNCHANGED <<command, pkgTag, diskVersion, npm, tag, lastGitHash, requireRelease,
                 gitLogOut, tagList, nextInvoked, verVars, notCmdVars>>

\* what the .catch of runCommandPublish rejects with after the removal
CatchRethrowsNothing(err) == Fulfilled(JSFalse)
CatchRethrows(err) == Rejected(err)

\* runCommandPublish: .catch(err => fsRemove(publish-temp).then(throw err))
CatchRemoveTemp ==
  /\ cmdPc = "catch"
  /\ \E ok \in BOOLEAN :
       /\ effects' = Append(effects, RemoveCall)
       /\ cmdPc' = "settled"
       /\ UNCHANGED cmdErr
       /\ IF ok
            THEN /\ tempDir' = FALSE
                 /\ cmdResult' = CatchRethrows(cmdErr)
            ELSE /\ UNCHANGED tempDir
                 /\ cmdResult' = Rejected(HostError("remove in catch"))
  /\ UNCHANGED <<command, pkgTag, diskVersion, npm, tag, lastGitHash, requireRelease,
                 gitLogOut, tagList, nextInvoked, verVars, notCmdVars>>

PublishNext ==
  \/ AlreadyPublished
  \/ GitTag
  \/ GitRevList
  \/ FindReleaseCommit
  \/ GitTagCreate
  \/ GitPushTags
  \/ GitRemote
  \/ GitClone
  \/ GitCheckout
  \/ NpmInstall
  \/ NpmPublish
  \/ RemoveTemp
  \/ CatchRemoveTemp

CmdNext ==
  \/ RemoteNpmGet
  \/ GetReleaseData
  \/ FirstCommit
  \/ GetReleaseCommits
  \/ DidUpdatePackageJson
  \/ ReleaseNext
  \/ PublishNext
  \/ RunOnNextPackage

SpecCommands == CmdInit /\ [][CmdNext]_vars


\* the entries of the git log output whose message has the scope of the package
ScopedEntries == {i \in 1 .. Len(gitLogOut) :
                    conventionalCommitsParser(gitLogOut[i]).scope = PackageDir}
OpsOf(calls) == {calls[i].op : i \in 1 .. Len(calls)}
CallsOf(calls) == {calls[i] : i \in 1 .. Len(calls)}

(***************************************************************************)
(* C11: a package that was never published (the registry answers           *)
(* not-found), with one feat commit scoped to it since its first commit:   *)
(* releaseRequired is true, the bump kind is minor, and nextVersion is the *)
(* version the manifest declares, with no bump applied.                    *)
(***************************************************************************)
C11_FirstRelease ==
  (/\ command = "release"
   /\ cmdPc \in {"decide", "increment"}
   /\ ~npm.present
   /\ Cardinality(ScopedEntries) = 1
   /\ \A i \in ScopedEntries : conventionalCommitsParser(gitLogOut[i]).type = "feat")
    => /\ lastVersion = NoVersion
       /\ lastGitHash = FirstHash
       /\ requireRelease = JSTrue
       /\ release = "minor"
       /\ nextVersion = diskVersion

\* the registry answered 404, git log reported the feat commit of the
\* package after a commit without scope, and getNextVersion has run
C11_Witness ==
  /\ command = "release"
  /\ cmdPc = "decide"
  /\ ~npm.present
  /\ gitLogOut = <<"chore: tidy", "feat(a): add x">>
  /\ release = "minor"
  /\ nextVersion = Version(MaxVer, 0, 0, "")



(***************************************************************************)
(* C12: releaseRequired is true exactly when the list of kept commits is   *)
(* not empty; when it is empty the release command rewrites no manifest,   *)
(* runs no release or test script, creates no commit, and the run          *)
(* continues with the next package.                                        *)
(***************************************************************************)
C12_NoReleaseNoChange ==
  (command = "release" /\ requireRelease # JSUndefined) =>
    /\ requireRelease = JSTrue <=> ScopedEntries # {}
    /\ requireRelease = JSFalse <=> Len(commits) = 0
    /\ requireRelease = JSFalse =>
         /\ cmdPc \in {"show", "nextVersion", "decide", "settled", "next"}
         /\ cmdPc \in {"settled", "next"} => cmdResult = Fulfilled(JSTrue)
         /\ cmdPc = "next" => nextInvoked
         /\ OpsOf(effects) \cap {"fsOutputFile", "npm"} = {}
         /\ \A call \in CallsOf(effects) :
              call.op = "git" =>
                \/ call.arg = "status --porcelain"
                \/ call.arg = "rev-list --abbrev-commit --max-parents=0 HEAD"
                \/ call = GitLogCall
         /\ diskVersion \in ManifestVersions

\* git log reported commits but none for this package, and the command for
\* the next package was invoked
C12_Witness ==
  /\ command = "release"
  /\ requireRelease = JSFalse
  /\ Len(gitLogOut) = MaxCommits
  /\ cmdPc = "next"
  /\ nextInvoked
  /\ release = "patch"


(***************************************************************************)
(* C13: the kept commits of a package are exactly the commits git log      *)
(* reports for the range lastReleasedCommitHash..HEAD and the package      *)
(* directory whose parsed scope equals the directory name, in the order    *)
(* git reports them; a commit with another scope or none contributes       *)
(* neither to releaseRequired nor to the bump kind.                        *)
(***************************************************************************)
C13_KeptCommits ==
  requireRelease # JSUndefined =>
    /\ GitLogCall \in CallsOf(effects)
    /\ GitLogCall.cwd = "packages/" \o PackageDir
    /\ Len(commits) = Cardinality(ScopedEntries)
    /\ \A k \in 1 .. Len(commits) :
         \E i \in ScopedEntries :
           /\ Cardinality({j \in ScopedEntries : j <= i}) = k
           /\ commits[k].hash = Hashes[i]
           /\ commits[k].header = gitLogOut[i]
           /\ commits[k].scope = PackageDir
    /\ requireRelease = JSTrue <=> ScopedEntries # {}
    /\ release # "" =>
         release = IF \E i \in ScopedEntries :
                        conventionalCommitsParser(gitLogOut[i]).type = "feat"
                     THEN "minor" ELSE "patch"

\* of two reported commits the older one is kept, the newer one has another
\* scope, and the bump kind was inferred
C13_Witness ==
  /\ gitLogOut = <<"feat(b): add y", "feat(a): add x">>
  /\ Len(commits) = 1
  /\ commits[1].hash = "h2"
  /\ requireRelease = JSTrue
  /\ release = "minor"


\* the calls of runCommandPublish from git push to the removal of the clone
PushCall == Call("git", "..", "push --tags")
RemoteCall == Call("git", "..", "remote -v")
CloneCall == Call("git", "..", "clone url publish-temp")
CheckoutCall == Call("git", "../publish-temp", "checkout " \o ReleaseTag)
InstallCall == Call("npm", "../publish-temp/packages/" \o PackageDir, "install")
NpmPublishCall == Call("npm", "../publish-temp/packages/" \o PackageDir, "publish")
RevListCall == Call("git", PackageDir, "rev-list --abbrev-commit -n 1 " \o ReleaseTag)
TagCreateCalls ==
  {Call("git", "..", "tag " \o ReleaseTag \o " " \o Hashes[i]) : i \in 1 .. Len(Hashes)}

\* git tag listed the release tag of the package
TagListed == command = "publish" /\ ReleaseTag \in tagList

(***************************************************************************)
(* C14, as claimed: publish when the release tag <name>-<version> already  *)
(* exists in the local tag list is a no-op: it creates no tag, pushes      *)
(* nothing, makes no clone and runs no npm install or npm publish.         *)
(***************************************************************************)
C14_TaggedIsNoOp ==
  TagListed =>
    CallsOf(effects) \cap
      (TagCreateCalls \cup {PushCall, CloneCall, InstallCall, NpmPublishCall}) = {}

(***************************************************************************)
(* C14, amended: publish when the release tag already exists in the local  *)
(* tag list skips only the tagging: it creates no tag and does not resolve *)
(* the release commits, reports the commit the tag points to, and then     *)
(* goes on as after creating a tag: it pushes the tags, clones the remote  *)
(* into publish-temp, checks out the tag, runs npm install and npm publish *)
(* in the clone and removes the clone; a publish that succeeds this way    *)
(* returns false.                                                          *)
(***************************************************************************)
C14_TaggedSkipsTagging ==
  TagListed =>
    /\ CallsOf(effects) \cap (TagCreateCalls \cup {GitLogCall}) = {}
    /\ cmdPc \notin {"tagList", "revList"} => RevListCall \in CallsOf(effects)
    /\ PushCall \in CallsOf(effects) =>
         \E i \in 2 .. Len(effects) : effects[i] = PushCall /\ effects[i - 1] = RevListCall
    /\ (cmdPc = "settled" /\ cmdResult.state = "fulfilled") =>
         /\ cmdResult = Fulfilled(JSFalse)
         /\ \E i \in 1 .. Len(effects) :
              /\ effects[i] = RevListCall
              /\ SubSeq(effects, i + 1, Len(effects)) =
                   <<PushCall, RemoteCall, CloneCall, CheckoutCall, InstallCall,
                     NpmPublishCall, RemoveCall>>

\* the tag was listed and the publish went through to the end
C14_Witness ==
  /\ TagListed
  /\ cmdPc = "settled"
  /\ cmdResult = Fulfilled(JSFalse)
  /\ NpmPublishCall \in CallsOf(effects)


(***************************************************************************)
(* C15: publish when the last published version equals the version of the *)
(* manifest is a no-op for that package: no tag is listed or created,      *)
(* nothing is pushed, cloned or published, no error is raised, and the run *)
(* continues with the next package.                                        *)
(***************************************************************************)
C15_PublishedIsNoOp ==
  (command = "publish" /\ pkgVersion.t = "version" /\ lastVersion = pkgVersion) =>
    /\ cmdPc \in {"publishCheck", "settled", "next"}
    /\ cmdPc \in {"settled", "next"} => cmdResult = Fulfilled(JSTrue)
    /\ cmdPc = "next" => nextInvoked
    /\ OpsOf(effects) \subseteq {"registry.get", "fsReadJson"}
    /\ tagList = {}
    /\ ~tempDir

\* the registry's version under the dist-tag is the version of the manifest
\* and the command for the next package was invoked
C15_Witness ==
  /\ command = "publish"
  /\ lastVersion = pkgVersion
  /\ lastVersion = Version(MaxVer, MaxVer, 0, "")
  /\ cmdPc = "next"
  /\ nextInvoked


\* errors of the host calls that the claims about publish take to succeed
EnvironmentErrors ==
  {HostError("git tag"), HostError("git log"), HostError("git show"),
   HostError("remove in catch")}

(***************************************************************************)
(* C16: publish when the tag does not exist and no kept commit touches the *)
(* manifest of the package fails with the error 'No release commit found'; *)
(* no tag is created, nothing is pushed, cloned or published, and later    *)
(* packages are not processed.                                             *)
(***************************************************************************)
C16_NoReleaseCommit ==
  (/\ command = "publish"
   /\ cmdPc \in {"settled", "next", "skipped", "aborted"}
   /\ Call("git", PackageDir, "tag") \in CallsOf(effects)
   /\ ReleaseTag \notin tagList
   /\ ReleaseCommit(commits) = 0
   /\ cmdResult.value \notin EnvironmentErrors)
    => /\ cmdResult = Rejected(JSError("No release commit found"))
       /\ CallsOf(effects) \cap
            (TagCreateCalls \cup {PushCall, CloneCall, InstallCall, NpmPublishCall}) = {}
       /\ ~nextInvoked
       /\ cmdPc # "next"


(***************************************************************************)
(* C17: whenever publish has created the directory publish-temp, the       *)
(* directory is removed before publish settles, on success and on failure  *)
(* of any step after the clone; on failure the original error is raised    *)
(* again after the removal.  (Runs in which the removal in the .catch      *)
(* itself fails are not covered.)                                          *)
(***************************************************************************)
C17_TempRemoved ==
  (/\ command = "publish"
   /\ CloneCall \in CallsOf(effects)
   /\ cmdPc \in {"settled", "next", "skipped", "aborted"}
   /\ cmdResult # Rejected(HostError("remove in catch")))
    => /\ ~tempDir
       /\ effects[Len(effects)] = RemoveCall
       /\ cmdErr = NoError => cmdResult = Fulfilled(JSFalse)
       /\ cmdErr # NoError =>
            /\ cmdResult = Rejected(cmdErr)
            /\ LET failed == effects[Len(effects) - 1]
               IN  /\ failed \in {CloneCall, CheckoutCall, InstallCall, NpmPublishCall,
                                  RemoveCall}
                   /\ cmdErr = IF failed = CloneCall THEN HostError("git clone")
                               ELSE IF failed = RemoveCall THEN HostError("remove")
                               ELSE HostError(failed.op \o " " \o failed.arg)

\* npm install failed in the clone; the clone is gone and the error of npm
\* install is the result
C17_Witness ==
  /\ command = "publish"
  /\ cmdPc = "settled"
  /\ CloneCall \in CallsOf(effects)
  /\ effects[Len(effects) - 1] = InstallCall
  /\ cmdResult = Rejected(HostError("npm install"))
  /\ ~tempDir


(***************************************************************************)
(* C18: npm publish is only ever executed inside the temporary clone,      *)
(* never in the live working tree, and only after, in this order, the      *)
(* release tag exists, the tags were pushed, the remote was cloned, the    *)
(* tag was checked out in the clone and npm install succeeded there; a     *)
(* failure of any of these steps means npm publish is not executed.        *)
(***************************************************************************)
C18_PublishFromCloneOnly ==
  /\ \A i \in 1 .. Len(effects) :
       (effects[i].op = "npm" /\ effects[i].arg = "publish") =>
         /\ command = "publish"
         /\ effects[i].cwd = "publish-temp/packages/" \o PackageDir
         /\ i > 6
         /\ effects[i - 1] = [op |-> "npm", cwd |-> "publish-temp/packages/" \o PackageDir,
                              arg |-> "install"]
         /\ effects[i - 2] = [op |-> "git", cwd |-> "publish-temp",
                              arg |-> "checkout " \o ReleaseTag]
         /\ effects[i - 3] = [op |-> "git", cwd |-> ".", arg |-> "clone url publish-temp"]
         /\ effects[i - 4].arg = "remote -v"
         /\ effects[i - 5] = [op |-> "git", cwd |-> ".", arg |-> "push --tags"]
         /\ \/ effects[i - 6] \in TagCreateCalls
            \/ effects[i - 6] = RevListCall /\ ReleaseTag \in tagList
  /\ cmdErr \notin {NoError, HostError("npm publish"), HostError("remove")} =>
       \A i \in 1 .. Len(effects) : ~(effects[i].op = "npm" /\ effects[i].arg = "publish")

\* publish created the tag at the kept commit that touches the manifest and
\* npm publish ran in the clone
C18_Witness ==
  /\ command = "publish"
  /\ cmdPc = "settled"
  /\ cmdResult = Fulfilled(JSFalse)
  /\ \E i \in 1 .. Len(effects) : effects[i] \in TagCreateCalls
  /\ effects[Len(effects) - 1] = NpmPublishCall
  /\ ~tempDir


(***************************************************************************)
(* C19: a registry fetch that answers 404 resolves to 'no metadata' and    *)
(* the pipeline continues as a first release; any other error of the fetch *)
(* (a timeout included) makes the command fail for that package, with no   *)
(* manifest written and no tag and no commit created.                      *)
(***************************************************************************)
C19_NotFoundIsNoMetadata ==
  /\ cmdResult # Rejected(JSError("E404"))
  /\ (tag # "" /\ ~npm.present) =>
       /\ lastVersion = NoVersion
       /\ lastGitHash \in {"", FirstHash}
       /\ lastGitHash = "" =>
            \/ cmdPc = "firstCommit"
            \/ cmdResult = Rejected(HostError("git rev-list --max-parents=0"))
  /\ cmdResult \in {Rejected(JSError("E500")), Rejected(JSError("ETIMEDOUT"))} =>
       /\ effects[Len(effects)].op = "registry.get"
       /\ \A i \in 1 .. Len(effects) - 1 :
            effects[i] = Call("git", "..", "status --porcelain")
       /\ diskVersion \in ManifestVersions
       /\ cmdPc \in {"settled", "aborted"}
       /\ ~nextInvoked

\* the registry answered 404 and the release command went on to read the
\* commits since the first commit
C19_Witness ==
  /\ command = "release"
  /\ ~npm.present
  /\ tag = "latest"
  /\ lastGitHash = FirstHash
  /\ cmdPc = "show"
  /\ requireRelease = JSTrue


\* the version the registry data holds under the dist-tag of the manifest;
\* the registry knows the dist-tags latest and next only
PublishedUnderTag ==
  IF ~npm.present THEN NoVersion
  ELSE IF tag = "latest" THEN npm.latest
  ELSE IF tag = "next" THEN npm.next
  ELSE NoVersion

(***************************************************************************)
(* C20: getReleaseData sets lastReleasedCommitHash by three cases: if the  *)
(* registry metadata has a version under the dist-tag (publishConfig.tag   *)
(* of the manifest, 'latest' by default) it is the gitHead of that         *)
(* version, or the string <name>-<version> when gitHead is absent; if      *)
(* there is no metadata or no version under the dist-tag it is the first   *)
(* commit of the repository and lastPublishedVersion is absent.            *)
(***************************************************************************)
C20_LastReleasedCommit ==
  tag # "" =>
    /\ tag = IF pkgTag # "" THEN pkgTag ELSE "latest"
    /\ IF PublishedUnderTag.t = "version"
         THEN /\ lastVersion = PublishedUnderTag
              /\ lastGitHash = IF npm.gitHead # "" THEN npm.gitHead
                               ELSE PackageName \o "-" \o VersionText(lastVersion)
         ELSE /\ lastVersion = NoVersion
              /\ \/ lastGitHash = FirstHash
                 \/ cmdPc = "firstCommit"
                 \/ cmdResult = Rejected(HostError("git rev-list --max-parents=0"))

(***************************************************************************)
(* C22: if the git workspace is not clean when the release command starts  *)
(* for a package, release fails with 'Git workspace not clean!' before any *)
(* registry fetch, manifest rewrite, script run or commit: the status      *)
(* query is the only call made, the manifest version on disk and every     *)
(* release datum are as before, and the command is not invoked for a later *)
(* package.                                                                *)
(***************************************************************************)
C22_DirtyWorkspaceFailsFirst ==
  cmdResult = Rejected(NotClean) =>
     /\ command = "release"
     /\ effects = <<GitStatusCall>>
     /\ npm = NoNpm
     /\ nextVersion = NoVersion
     /\ requireRelease = JSUndefined
     /\ cmdPc \in {"settled", "aborted"}
     /\ ~nextInvoked

\* release found the workspace dirty and the run over the packages ended
C22_Witness ==
  /\ command = "release"
  /\ cmdPc = "aborted"
  /\ cmdResult = Rejected(NotClean)
  /\ effects = <<GitStatusCall>>
  /\ ~nextInvoked

\* how often a call was made
CountOf(call) == Cardinality({k \in 1 .. Len(effects) : effects[k] = call})
\* release made its commit
CommitCreated ==
  /\ command = "release"
  /\ GitCommitCall \in CallsOf(effects)
  /\ cmdResult # Rejected(HostError("git commit"))

(***************************************************************************)
(* C32: in a release run, as soon as one package's release creates a       *)
(* release commit the command signals stop (false) and the command is not  *)
(* invoked for a later package; a package after which the run goes on made *)
(* no commit (no release required, or the workspace was clean after the    *)
(* scripts), so one run creates at most one release commit.                *)
(***************************************************************************)
C32_OneReleaseCommit ==
  command = "release" =>
     /\ CountOf(GitCommitCall) <= 1
     /\ CommitCreated =>
          /\ cmdResult = Fulfilled(JSFalse)
          /\ cmdPc \in {"settled", "skipped"}
          /\ ~nextInvoked
     /\ nextInvoked =>
          /\ cmdResult = Fulfilled(JSTrue)
          /\ GitCommitCall \notin CallsOf(effects)
          /\ Call("git", "..", "add .") \notin CallsOf(effects)
          /\ \/ Falsy(requireRelease)
             \/ effects[Len(effects)] = GitStatusCall

\* release committed and the rest of the packages was skipped
C32_Witness ==
  /\ command = "release"
  /\ cmdPc = "skipped"
  /\ CommitCreated
  /\ ~nextInvoked

(***************************************************************************)
(* C33: in a publish run, a package that is not reported as already        *)
(* published and whose publish completes signals stop (false), so the      *)
(* command is not invoked for a later package; the run goes on only after  *)
(* a package that was already published, for which npm publish was not     *)
(* run.  One run of publish runs npm publish for at most one package.      *)
(***************************************************************************)
C33_OnePublish ==
  command = "publish" =>
     /\ CountOf(NpmPublishCall) <= 1
     /\ NpmPublishCall \in CallsOf(effects) => ~nextInvoked
     /\ (cmdResult.state = "fulfilled" /\ lastVersion # pkgVersion) =>
          /\ cmdResult = Fulfilled(JSFalse)
          /\ NpmPublishCall \in CallsOf(effects)
          /\ ~nextInvoked
     /\ nextInvoked =>
          /\ lastVersion = pkgVersion
          /\ cmdResult = Fulfilled(JSTrue)
          /\ NpmPublishCall \notin CallsOf(effects)

\* publish ran npm publish, completed, and the rest of the packages was
\* skipped
C33_Witness ==
  /\ command = "publish"
  /\ cmdPc = "skipped"
  /\ cmdResult = Fulfilled(JSFalse)
  /\ NpmPublishCall \in CallsOf(effects)
  /\ ~nextInvoked

\* the place of a call in the steps of release after the decision
ReleaseStepOf(call) ==
  IF call.op = "fsReadfile" THEN 1
  ELSE IF call.op = "fsReaddir" THEN 2
  ELSE IF call = Call("npm", PackageDir, "run release") THEN 3
  ELSE IF call = Call("npm", PackageDir, "run test") THEN 4
  ELSE IF call = GitCommitCall THEN 5
  ELSE 0
\* the release script or the test script failed
ScriptFailed ==
  cmdResult \in {Rejected(HostError("npm run release")), Rejected(HostError("npm run test"))}

(***************************************************************************)
(* C35: in release the steps run in the order version rewrite, dependency  *)
(* rewrite, release script, test script, commit; if the release script or  *)
(* the test script fails, no release commit is created, the command is not *)
(* invoked for a later package, and the rewritten manifest is not rolled   *)
(* back: the failing script is the last call made.                         *)
(***************************************************************************)
C35_ScriptFailureKeepsRewrite ==
  command = "release" =>
     /\ \A i, j \in 1 .. Len(effects) :
          (i < j /\ ReleaseStepOf(effects[i]) > 0 /\ ReleaseStepOf(effects[j]) > 0)
             => ReleaseStepOf(effects[i]) < ReleaseStepOf(effects[j])
     /\ GitCommitCall \in CallsOf(effects) =>
          {1, 2} \subseteq {ReleaseStepOf(effects[k]) : k \in 1 .. Len(effects)}
     /\ ScriptFailed =>
          /\ GitCommitCall \notin CallsOf(effects)
          /\ Call("git", "..", "add .") \notin CallsOf(effects)
          /\ ReleaseStepOf(effects[Len(effects)]) \in {3, 4}
          /\ {1, 2} \subseteq {ReleaseStepOf(effects[k]) : k \in 1 .. Len(effects)}
          /\ diskVersion = IF VersionPatternMatches(pkgVersion) THEN nextVersion ELSE pkgVersion
          /\ cmdPc \in {"settled", "aborted"}
          /\ ~nextInvoked

\* the version was rewritten, the release script ran, the test script
\* failed and the run ended there
C35_Witness ==
  /\ command = "release"
  /\ cmdPc = "aborted"
  /\ cmdResult = Rejected(HostError("npm run test"))
  /\ Call("npm", PackageDir, "run release") \in CallsOf(effects)
  /\ diskVersion = nextVersion
  /\ diskVersion # pkgVersion

(***************************************************************************)
(* C37: when publish creates a tag and several kept commits touch the      *)
(* package's manifest, the tag is created at the newest of them (the first *)
(* in the newest-first commit list); more than one is no error, and the    *)
(* tag is never placed on a commit that does not touch the manifest.       *)
(***************************************************************************)
C37_TagAtNewestManifestCommit ==
  command = "publish" =>
     \A c \in CallsOf(effects) \cap TagCreateCalls :
        \E k \in 1 .. Len(commits) :
           /\ c = Call("git", "..", "tag " \o ReleaseTag \o " " \o commits[k].hash)
           /\ commits[k].updatesPackageJson = JSTrue
           /\ \A j \in 1 .. k - 1 : commits[j].updatesPackageJson # JSTrue

\* two kept commits touch the manifest and the tag was made at the newer one
C37_Witness ==
  /\ command = "publish"
  /\ Len(commits) = 2
  /\ commits[1].updatesPackageJson = JSTrue
  /\ commits[2].updatesPackageJson = JSTrue
  /\ Call("git", "..", "tag " \o ReleaseTag \o " " \o commits[1].hash) \in CallsOf(effects)
  /\ cmdResult = Fulfilled(JSFalse)


(***************************************************************************)
(* updatePackageJson: incrementPackageVersion and updateDependencies       *)
(*                                                                         *)
(* The manifest is rewritten as text, with String.replace and a pattern    *)
(* under the flags g and m.  The text is a sequence of lines; a value      *)
(* between quotes is the sequence of the tokens the pattern tells apart    *)
(* (runs of digits, dots, everything else).                                *)
(***************************************************************************)
\* \d+
IsDigits(tok) == tok \in {ToString(n) : n \in 0 .. 9}

\* \d+(?:\.\d+(?:\.\d+)?)? with the quotes around it: one to three runs of
\* digits with dots between them, and nothing else
NumericDotted(value) ==
  /\ Len(value) \in {1, 3, 5}
  /\ \A k \in 1 .. Len(value) : IF k % 2 = 1 THEN IsDigits(value[k]) ELSE value[k] = "."

\* `${version}` of a version, as tokens
VersionTokens(v) ==
  IF v.t = "version"
    THEN <<ToString(v.major), ".", ToString(v.minor), ".", ToString(v.patch)>>
         \o (IF v.pre = "" THEN <<>> ELSE <<"-", v.pre>>)
  ELSE <<v.t>>

\* the lines of a manifest: a property on a line of its own ("key": "value"
\* with optional comma), a property that shares its line with other text,
\* the line that opens an object ("key": {) and the line that closes it.
\* parent is the key of the object the line is in, "" for the manifest.
Property(parent, key, value) ==
  [kind |-> "property", parent |-> parent, key |-> key, value |-> value, own |-> TRUE]
Packed(parent, key, value) ==
  [kind |-> "property", parent |-> parent, key |-> key, value |-> value, own |-> FALSE]
Open(parent, key) ==
  [kind |-> "open", parent |-> parent, key |-> key, value |-> <<>>, own |-> FALSE]
Close(parent) ==
  [kind |-> "close", parent |-> parent, key |-> "", value |-> <<>>, own |-> FALSE]

\* ^(\s*"<key>"\s*:\s*")<numeric>("\s*(?:,\s*)?)$ under the flag m: the whole
\* line is the property; how far the line is indented does not matter
LineMatchesKeyOnly(key, line) == line.kind = "property" /\ line.key = key
LineMatches(key, line) ==
  /\ line.kind = "property"
  /\ line.own
  /\ line.key = key
  /\ NumericDotted(line.value)

\* content.replace(pattern, `$1${value}$2`) under the flag g
Replace(txt, key, value) ==
  [k \in 1 .. Len(txt) |->
     IF LineMatches(key, txt[k]) THEN [txt[k] EXCEPT !.value = value] ELSE txt[k]]

incrementPackageVersion(txt, next) == Replace(txt, "version", next)

\* JSON.parse of the text, as far as updateDependencies reads data.pkg
HasField(txt, field) ==
  \E k \in 1 .. Len(txt) : txt[k].kind = "open" /\ txt[k].parent = "" /\ txt[k].key = field
KeysOf(txt, field) ==
  {txt[k].key : k \in {j \in 1 .. Len(txt) : txt[j].kind = "property" /\ txt[j].parent = field}}

RECURSIVE updateDependencies(_, _, _, _, _)
\* forEach(packages, dependency => ...): `dependency in data.pkg.devDependencies
\* || dependency in data.pkg.dependencies` throws a TypeError on a field that
\* is undefined; [text, threw]
updateDependencies(packages, k, txt, pkg, version) ==
  IF k > Len(packages) THEN [text |-> txt, threw |-> FALSE]
  ELSE IF ~HasField(pkg, "devDependencies") THEN [text |-> txt, threw |-> TRUE]
  ELSE IF packages[k] \in KeysOf(pkg, "devDependencies")
    THEN updateDependencies(packages, k + 1, Replace(txt, packages[k], version[packages[k]]),
                            pkg, version)
  ELSE IF ~HasField(pkg, "dependencies") THEN [text |-> txt, threw |-> TRUE]
  ELSE IF packages[k] \in KeysOf(pkg, "dependencies")
    THEN updateDependencies(packages, k + 1, Replace(txt, packages[k], version[packages[k]]),
                            pkg, version)
  ELSE updateDependencies(packages, k + 1, txt, pkg, version)

\* the values a manifest may hold for a version or a dependency
Numeric3 == <<"1", ".", "0", ".", "0">>
Numeric1 == <<"1">>
PreRelease == <<"2", ".", "0", ".", "0", "-", "beta", ".", "1">>
CaretRange == <<"^", "1", ".", "0", ".", "0">>
FourParts == <<"1", ".", "0", ".", "0", ".", "0">>
ValueTexts == {Numeric3, Numeric1, PreRelease, CaretRange, FourParts}

\* a dependency field: absent, an empty object, one that declares b, or one
\* that declares b, c and the registry package x
FieldLines(field, shape, value) ==
  IF shape = "absent" THEN <<>>
  ELSE IF shape = "empty" THEN <<Open("", field), Close(field)>>
  ELSE IF shape = "b" THEN <<Open("", field), Property(field, "b", value), Close(field)>>
  ELSE <<Open("", field), Property(field, "b", value), Property(field, "c", Numeric1),
         Property(field, External, Numeric3), Close(field)>>

ManifestLines(version, packed, nested, dev, reg, depValue) ==
  <<Open("", ""), Property("", "name", <<"a">>)>>
  \o <<IF packed THEN Packed("", "version", version) ELSE Property("", "version", version)>>
  \o (IF nested = <<>> THEN <<>>
      ELSE <<Open("", "config"), Property("config", "version", nested), Close("config")>>)
  \o FieldLines("devDependencies", dev, depValue)
  \o FieldLines("dependencies", reg, depValue)
  \o <<Close("")>>

FieldShapes == {"absent", "empty", "b", "bcx"}

\* the directories of packages/, and the version field of each one's manifest
RwPackages == <<"a", "b", "c">>
VersionsOf ==
  [d \in {"a", "b", "c"} |->
     IF d = "b" THEN siblingVersion ELSE VersionTokens(Version(0, MaxVer, MaxVer, ""))]

RwInit ==
  /\ FeIdle
  /\ SortIdle
  /\ PatchIdle
  /\ VerIdle
  /\ CmdIdle
  /\ RunIdle
  /\ BootIdle
  /\ RerunIdle
  /\ \E version \in ValueTexts, packed \in BOOLEAN, nested \in {<<>>, Numeric3, PreRelease},
        dev \in FieldShapes, reg \in FieldShapes :
       \E depValue \in IF {dev, reg} \cap {"b", "bcx"} # {} THEN ValueTexts ELSE {Numeric3} :
          text = ManifestLines(version, packed, nested, dev, reg, depValue)
  /\ textBefore = text
  /\ rwPc = "start"
  /\ rwNextVersion \in {VersionTokens(Version(MaxVer, 0, 1, "")), VersionTokens(NullVersion)}
  /\ siblingVersion \in {VersionTokens(Version(MaxVer, MaxVer, 0, "")),
                         VersionTokens(Version(MaxVer, 0, 0, "beta"))}

\* incrementPackageVersion: updatePackageJson reads the file, replaces and
\* writes it
RewriteVersion ==
  /\ rwPc = "start"
  /\ \E outcome \in {"ok", "readFailed", "writeFailed"} :
       IF outcome = "ok"
         THEN /\ text' = incrementPackageVersion(text, rwNextVersion)
              /\ rwPc' = "incremented"
       ELSE IF outcome = "readFailed"
         THEN /\ rwPc' = "failed"
              /\ UNCHANGED text
       ELSE /\ rwPc' = "failed"
            /\ text' \in {text, <<>>}
  /\ UNCHANGED <<textBefore, rwNextVersion, siblingVersion, notRwVars>>

\* updateDependencies: getPackages, then forEach over the directories
RewriteDependencies ==
  /\ rwPc = "incremented"
  /\ \E outcome \in {"ok", "readdirFailed"} :
       IF outcome = "ok"
         THEN LET r == updateDependencies(RwPackages, 1, text, textBefore, VersionsOf)
              IN  /\ text' = r.text
                  /\ rwPc' = IF r.threw THEN "threw" ELSE "updated"
       ELSE /\ rwPc' = "failed"
            /\ UNCHANGED text
  /\ UNCHANGED <<textBefore, rwNextVersion, siblingVersion, notRwVars>>

RwNext == RewriteVersion \/ RewriteDependencies

SpecRewrite == RwInit /\ [][RwNext]_vars

\* the keys the two rewrites look for
RewrittenKeys == {"version", "b", "c"}

(***************************************************************************)
(* C21: the version rewrite leaves unmatched values unchanged.  A line     *)
(* whose value is not a purely numeric dotted version (a pre-release       *)
(* string such as 2.0.0-beta.1, a range) is the same after                 *)
(* incrementPackageVersion and updateDependencies, and a manifest in which *)
(* no version or sibling-dependency value is purely numeric is identical   *)
(* as a whole.                                                             *)
(***************************************************************************)
C21_UnmatchedUnchanged ==
  rwPc \in {"incremented", "updated"} =>
     /\ Len(text) = Len(textBefore)
     /\ \A k \in 1 .. Len(textBefore) :
          ~NumericDotted(textBefore[k].value) => text[k] = textBefore[k]
     /\ (\A k \in 1 .. Len(textBefore) :
           textBefore[k].key \in RewrittenKeys => ~NumericDotted(textBefore[k].value))
        => text = textBefore

\* a manifest with a pre-release version and a range for sibling b went
\* through both rewrites and is as it was
C21_Witness ==
  /\ rwPc = "updated"
  /\ \E k \in 1 .. Len(textBefore) :
       /\ textBefore[k] = Property("", "version", PreRelease)
  /\ \E k \in 1 .. Len(textBefore) :
       /\ textBefore[k] = Property("dependencies", "b", CaretRange)
  /\ text = textBefore

(***************************************************************************)
(* C30: incrementPackageVersion rewrites only the package's own top-level  *)
(* version field: a numeric-valued field named version nested inside       *)
(* another object of the manifest is left unchanged, and every line other  *)
(* than the top-level version line is unchanged.                           *)
(***************************************************************************)
C30_TopLevelVersionOnly ==
  rwPc = "incremented" =>
     \A k \in 1 .. Len(textBefore) :
        ~(textBefore[k].parent = "" /\ textBefore[k].key = "version")
           => text[k] = textBefore[k]

\* the siblings the manifest declares, and the lines that declare them
DeclaredSiblings ==
  {d \in {"a", "b", "c"} : \E f \in DependencyFields : d \in KeysOf(textBefore, f)}
DeclaresNumeric(line) ==
  /\ line.kind = "property"
  /\ line.parent \in DependencyFields
  /\ line.key \in DeclaredSiblings
  /\ NumericDotted(line.value)

(***************************************************************************)
(* C31: updateDependencies sets the field of every sibling package that    *)
(* the released package declares in dependencies or devDependencies with a *)
(* purely numeric version to the version of that sibling's manifest; the   *)
(* fields of packages that are not declared siblings are as they were      *)
(* before it ran, and every declared sibling is processed.                 *)
(***************************************************************************)
C31_DeclaredSiblingsUpdated ==
  rwPc \in {"updated", "threw"} =>
     /\ Len(text) = Len(textBefore)
     /\ \A k \in 1 .. Len(textBefore) :
          DeclaresNumeric(textBefore[k]) => text[k].value = VersionsOf[textBefore[k].key]
     /\ \A k \in 1 .. Len(textBefore) :
          textBefore[k].key \notin DeclaredSiblings
             => text[k] = incrementPackageVersion(textBefore, rwNextVersion)[k]


(***************************************************************************)
(* main and runOnPackages                                                  *)
(*                                                                         *)
(* Two indexes are in the repository: src/src/index.ts, whose commands     *)
(* take (packageDir, ...), and unnamed/part_001, whose commands take       *)
(* (host, packageDir, ...).  runOnPackages is the same in both.            *)
(***************************************************************************)
Builds == {"index.ts", "part_001"}

\* the own properties of the object commands
CommandNames == {"bootstrap", "reset", "testRelease", "release", "publish", "run", "npm"}

\* process.argv.slice(2) of the runs looked at
Argvs == {<<>>, <<"release">>, <<"run", "test">>, <<"nope">>}

\* the formal parameters of a command
Parameters(b, name) ==
  (IF b = "part_001" THEN <<"host">> ELSE <<>>)
  \o <<"packageDir">>
  \o (IF name = "run" THEN <<"task">> ELSE <<>>)

\* the value a call binds to a formal parameter: the argument at its
\* position, undefined if there is none
RECURSIVE PositionOf(_, _, _)
PositionOf(params, name, k) ==
  IF k > Len(params) THEN 0
  ELSE IF params[k] = name THEN k ELSE PositionOf(params, name, k + 1)
Bound(params, name, args) ==
  LET k == PositionOf(params, name, 1)
  IN  IF k = 0 THEN [t |-> "none", v |-> ""]
      ELSE IF k > Len(args) THEN JSUndefined ELSE args[k]

\* ([] as any).concat([file], args)
ApplyArgs(file, args) ==
  <<JSStr(file)>> \o [k \in 1 .. Len(args) |-> JSStr(args[k])]

\* what the promise of a command settles to.  A command of part_001 is
\* handed the directory name where it expects the host and calls a method
\* of it, or joins a path with an undefined directory: it rejects.
CommandOutcomes(b) ==
  IF b = "part_001"
    THEN {Rejected(TypeError), Rejected(HostError("command"))}
    ELSE {Fulfilled(JSTrue), Fulfilled(JSFalse), Fulfilled(JSUndefined),
          Rejected(HostError("command"))}

\* what getOrderedPackages may resolve to
OrderedLists == {SubSeq(<<"b", "a", "c", "e", "d">>, 1, n) : n \in 0 .. MaxPackages}

Stdout(what, value) == [stream |-> "stdout", what |-> what, value |-> value]
Stderr(what, value) == [stream |-> "stderr", what |-> what, value |-> value]

RunInit ==
  /\ FeIdle
  /\ SortIdle
  /\ PatchIdle
  /\ VerIdle
  /\ CmdIdle
  /\ RwIdle
  /\ BootIdle
  /\ RerunIdle
  /\ build \in Builds
  /\ argv \in Argvs
  /\ runPc = "main"
  /\ runList = <<>>
  /\ runIndex = 0
  /\ runValue = JSUndefined
  /\ invocations = <<>>
  /\ runPromise = Pending
  /\ printed = <<>>
  /\ exitCode = -1

\* if (process.argv.length < 3) { console.error('Missing task'); process.exit(1); }
MainMissingTask ==
  /\ runPc = "main"
  /\ Len(argv) < 1
  /\ printed' = Append(printed, Stderr("Missing task", JSUndefined))
  /\ exitCode' = 1
  /\ runPc' = "exited"
  /\ UNCHANGED <<build, argv, runList, runIndex, runValue, invocations, runPromise,
                 notRunVars>>

\* runOnPackages(commands, command, commandArguments) is called
MainStart ==
  /\ runPc = "main"
  /\ Len(argv) >= 1
  /\ runPc' = "order"
  /\ UNCHANGED <<build, argv, runList, runIndex, runValue, invocations, runPromise,
                 printed, exitCode, notRunVars>>

\* getOrderedPackages() settles; forEach starts from Promise.resolve(true)
RunGetOrderedPackages ==
  /\ runPc = "order"
  /\ \/ /\ runList' \in OrderedLists
        /\ runIndex' = 1
        /\ runValue' = ReduceInitial
        /\ runPc' = "forEach"
        /\ UNCHANGED runPromise
     \/ /\ runPromise' \in {Rejected(HostError("readdir")),
                            Rejected(JSError("No matching package.json found"))}
        /\ runPc' = "settled"
        /\ UNCHANGED <<runList, runIndex, runValue>>
  /\ UNCHANGED <<build, argv, invocations, printed, exitCode, notRunVars>>

\* the reduce callback finds continueReduce === false
RunSkip ==
  /\ runPc = "forEach"
  /\ runIndex <= Len(runList)
  /\ ContinueReduceIsFalse(runValue)
  /\ printed' = Append(printed, Stdout("Skipping", JSStr(runList[runIndex])))
  /\ runValue' = SkipResult
  /\ runIndex' = runIndex + 1
  /\ UNCHANGED <<build, argv, runPc, runList, invocations, runPromise, exitCode,
                 notRunVars>>

\* commands[command].apply(null, ([] as any).concat([file], args))
RunInvoke ==
  /\ runPc = "forEach"
  /\ runIndex <= Len(runList)
  /\ ~ContinueReduceIsFalse(runValue)
  /\ IF argv[1] \in CommandNames
       THEN LET args == ApplyArgs(runList[runIndex], Tail(argv))
                params == Parameters(build, argv[1])
            IN  /\ invocations' = Append(invocations,
                      [command    |-> argv[1],
                       args       |-> args,
                       host       |-> Bound(params, "host", args),
                       packageDir |-> Bound(params, "packageDir", args),
                       result     |-> Pending])
                /\ runPc' = "task"
                /\ UNCHANGED runPromise
       ELSE /\ runPromise' = Rejected(TypeError)
            /\ runPc' = "settled"
            /\ UNCHANGED invocations
  /\ UNCHANGED <<build, argv, runList, runIndex, runValue, printed, exitCode, notRunVars>>

\* the promise the command returned settles
RunTaskSettles ==
  /\ runPc = "task"
  /\ \E p \in CommandOutcomes(build) :
       /\ invocations' = [invocations EXCEPT ![Len(invocations)].result = p]
       /\ IF p.state = "rejected"
            THEN /\ runPromise' = ThenOnRejected(p)
                 /\ runPc' = "settled"
                 /\ UNCHANGED <<runIndex, runValue>>
            ELSE /\ runValue' = p.value
                 /\ runIndex' = runIndex + 1
                 /\ runPc' = "forEach"
                 /\ UNCHANGED runPromise
  /\ UNCHANGED <<build, argv, runList, printed, exitCode, notRunVars>>

\* the promise of the last entry is the promise of forEach
RunForEachDone ==
  /\ runPc = "forEach"
  /\ runIndex > Len(runList)
  /\ runPromise' = Fulfilled(runValue)
  /\ runPc' = "settled"
  /\ UNCHANGED <<build, argv, runList, runIndex, runValue, invocations, printed,
                 exitCode, notRunVars>>

\* .then(() => console.log(`Successful command: ...`)); the process ends
\* with nothing left to do
MainThen ==
  /\ runPc = "settled"
  /\ runPromise.state = "fulfilled"
  /\ printed' = Append(printed, Stdout("Successful command", JSStr(argv[1])))
  /\ exitCode' = 0
  /\ runPc' = "exited"
  /\ UNCHANGED <<build, argv, runList, runIndex, runValue, invocations, runPromise,
                 notRunVars>>

\* .catch(err => { console.error(`Failed command: ...`);
\*   if (err.stack) console.error(err.stack); process.exit(1); })
MainCatchExitsZero ==
  /\ runPc = "settled"
  /\ runPromise.state = "rejected"
  /\ printed' = printed \o <<Stderr("Failed command", runPromise.value)>>
  /\ exitCode' = 0
  /\ runPc' = "exited"
  /\ UNCHANGED <<build, argv, runList, runIndex, runValue, invocations, runPromise,
                 notRunVars>>
MainCatch ==
  /\ runPc = "settled"
  /\ runPromise.state = "rejected"
  /\ printed' = printed \o <<Stderr("Failed command", runPromise.value),
                             Stderr("stack", runPromise.value)>>
  /\ exitCode' = 1
  /\ runPc' = "exited"
  /\ UNCHANGED <<build, argv, runList, runIndex, runValue, invocations, runPromise,
                 notRunVars>>

RunNext ==
  \/ MainMissingTask
  \/ MainStart
  \/ RunGetOrderedPackages
  \/ RunSkip
  \/ RunInvoke
  \/ RunTaskSettles
  \/ RunForEachDone
  \/ MainThen
  \/ MainCatch

SpecRun == RunInit /\ [][RunNext]_vars

\* a command was invoked and failed; a command signalled stop
TaskFailed == \E k \in 1 .. Len(invocations) : invocations[k].result.state = "rejected"
StopSignalled == \E k \in 1 .. Len(invocations) : invocations[k].result = Fulfilled(JSFalse)

(***************************************************************************)
(* C23: process outcome of the CLI.  A missing command argument exits      *)
(* non-zero with a 'Missing task' message and runs no command on any       *)
(* package; any failure during execution (of getOrderedPackages, of the    *)
(* lookup of the command, of a command) exits non-zero after printing the  *)
(* error; a run in which nothing failed exits zero, including a run that a *)
(* stop signal cut short.                                                  *)
(***************************************************************************)
C23_ExitStatus ==
  /\ exitCode \in {-1, 0, 1}
  /\ exitCode # -1 <=> runPc = "exited"
  /\ runPc = "exited" =>
       /\ Len(argv) = 0 =>
            /\ exitCode = 1
            /\ printed = <<Stderr("Missing task", JSUndefined)>>
            /\ invocations = <<>>
            /\ runList = <<>>
       /\ (Len(argv) > 0 /\ runPromise.state = "rejected") =>
            /\ exitCode = 1
            /\ Len(printed) >= 2
            /\ printed[Len(printed) - 1] = Stderr("Failed command", runPromise.value)
       /\ (Len(argv) > 0 /\ TaskFailed) => exitCode = 1
       /\ (Len(argv) > 0 /\ runPromise.state = "fulfilled") =>
            /\ exitCode = 0
            /\ ~TaskFailed
            /\ printed[Len(printed)] = Stdout("Successful command", JSStr(argv[1]))
       /\ Len(argv) > 0 => runPromise.state # "pending"

\* the command of the first of three packages signalled stop, the other two
\* were skipped and the process exited with status 0
C23_Witness ==
  /\ runPc = "exited"
  /\ exitCode = 0
  /\ Len(runList) = 3
  /\ Len(invocations) = 1
  /\ StopSignalled
  /\ runPromise = Fulfilled(JSFalse)

(***************************************************************************)
(* C25: runOnPackages invokes the selected command once per package in the *)
(* order getOrderedPackages returned (computed once) until a command       *)
(* signals stop or fails; on each invocation the command receives that     *)
(* package's directory as its package-directory parameter, the host        *)
(* capability where the command takes one, and then the CLI arguments.     *)
(***************************************************************************)
C25_OncePerPackageInOrder ==
  /\ Len(invocations) <= Len(runList)
  /\ \A k \in 1 .. Len(invocations) :
       /\ invocations[k].command = argv[1]
       /\ invocations[k].packageDir = JSStr(runList[k])
       /\ "host" \in {Parameters(build, argv[1])[j] : j \in 1 .. Len(Parameters(build, argv[1]))}
            => invocations[k].host = [t |-> "host", v |-> "DefaultHost"]
       /\ k < Len(invocations) =>
            /\ invocations[k].result.state = "fulfilled"
            /\ invocations[k].result.value # JSFalse
  /\ (runPc \in {"settled", "exited"} /\ runPromise.state = "fulfilled" /\ ~StopSignalled)
       => Len(invocations) = Len(runList)

(***************************************************************************)
(* C36: forEach over an empty list never invokes the task, reports no      *)
(* skipped item and resolves to true (the initial value of the reduce);    *)
(* so a command run over zero packages calls no command, prints no         *)
(* 'Skipping', and ends as a success with exit status 0, whatever the      *)
(* command name is.                                                        *)
(***************************************************************************)
C36_EmptyRunSucceeds ==
  (runIndex >= 1 /\ runList = <<>>) =>
     /\ invocations = <<>>
     /\ \A k \in 1 .. Len(printed) : printed[k].what # "Skipping"
     /\ runPc \in {"forEach", "settled", "exited"}
     /\ runPc # "forEach" => runPromise = Fulfilled(JSTrue)
     /\ runPc = "exited" =>
          /\ exitCode = 0
          /\ printed = <<Stdout("Successful command", JSStr(argv[1]))>>

\* a run of an unknown command over zero packages has exited as a success
C36_Witness ==
  /\ runIndex >= 1
  /\ runList = <<>>
  /\ argv = <<"nope">>
  /\ runPc = "exited"
  /\ exitCode = 0
  /\ runPromise = Fulfilled(JSTrue)

(***************************************************************************)
(* runCommandBootstrap                                                     *)
(*                                                                         *)
(* withPatchedPackageJson(packageDir, () => npm install, then npm prune),  *)
(* then linkDependencies(packageDir).  The steps of withPatchedPackageJson *)
(* are the actions of its model above; the wrapped operation is the two    *)
(* npm calls.                                                              *)
(***************************************************************************)
\* what host.readdir(packagesDirectory) resolves to
BootPackages == SubSeq(PackageNames, 1, Cardinality(packagesDir))

\* `file in pkg.devDependencies` throws on a field that is undefined
getPackageDependenciesThrows(pkg, packages) ==
  /\ Len(packages) > 0
  /\ (~pkg.devDependencies.defined \/ ~pkg.dependencies.defined)
getPackageDependencies(pkg, packages) ==
  FilterSeq(packages, DOMAIN pkg.devDependencies.entries, 1)
  \o FilterSeq(packages, DOMAIN pkg.dependencies.entries, 1)

NpmCall(arg, ok) == [arg |-> arg, ok |-> ok]
LinkFile(dependency, file) == [dependency |-> dependency, file |-> file]

BootInit ==
  /\ FeIdle
  /\ SortIdle
  /\ VerIdle
  /\ CmdIdle
  /\ RwIdle
  /\ RunIdle
  /\ RerunIdle
  /\ \E n \in 1 .. MaxPackages :
       /\ packagesDir = Dirs(n)
       /\ packageDir \in Dirs(n)
       /\ \E p \in PatchManifests(n, packageDir) :
            before \in {Handwritten(p), Serialized(p)}
  /\ files = [json |-> before, orig |-> NoFile]
  /\ pkgRead = NoPkg
  /\ patchPc = "start"
  /\ caught = NoError
  /\ fnWrote = FALSE
  /\ moved = 0
  /\ patchResult = Pending
  /\ bootPc = "patch"
  /\ npmRan = <<>>
  /\ toLink = <<>>
  /\ links = <<>>
  /\ bootResult = Pending
  /\ bootNextInvoked = FALSE

\* npm(packageDir, 'install')
BootstrapInstall ==
  /\ bootPc = "patch"
  /\ patchPc = "fn"
  /\ npmRan = <<>>
  /\ \E ok \in BOOLEAN :
       /\ npmRan' = <<NpmCall("install", ok)>>
       /\ IF ok THEN UNCHANGED <<patchPc, caught>>
          ELSE /\ caught' = HostError("npm install")
               /\ patchPc' = "catch"
  /\ UNCHANGED <<packagesDir, packageDir, files, before, pkgRead, fnWrote, moved,
                 patchResult, bootPc, toLink, links, bootResult, bootNextInvoked,
                 notBootVars>>

\* .then(() => npm(packageDir, 'prune'))
BootstrapPrune ==
  /\ bootPc = "patch"
  /\ patchPc = "fn"
  /\ npmRan = <<NpmCall("install", TRUE)>>
  /\ \E ok \in BOOLEAN :
       /\ npmRan' = Append(npmRan, NpmCall("prune", ok))
       /\ IF ok THEN /\ patchPc' = "move"
                     /\ UNCHANGED caught
          ELSE /\ caught' = HostError("npm prune")
               /\ patchPc' = "catch"
  /\ UNCHANGED <<packagesDir, packageDir, files, before, pkgRead, fnWrote, moved,
                 patchResult, bootPc, toLink, links, bootResult, bootNextInvoked,
                 notBootVars>>

\* withPatchedPackageJson(...).then(() => linkDependencies(packageDir)): a
\* rejection is passed on
BootstrapLinksOnFailure ==
  /\ bootPc = "patch"
  /\ patchPc = "settled"
  /\ bootPc' = "getPackages"
  /\ UNCHANGED <<patchVars, npmRan, toLink, links, bootResult, bootNextInvoked,
                 notBootVars>>
BootstrapPatched ==
  /\ bootPc = "patch"
  /\ patchPc = "settled"
  /\ IF patchResult.state = "fulfilled"
       THEN /\ bootPc' = "getPackages"
            /\ UNCHANGED bootResult
       ELSE /\ bootResult' = patchResult
            /\ bootPc' = "settled"
  /\ UNCHANGED <<patchVars, npmRan, toLink, links, bootNextInvoked, notBootVars>>

\* linkDependencies: getPackages()
LinkGetPackages ==
  /\ bootPc = "getPackages"
  /\ \/ /\ bootPc' = "getPackageJson"
        /\ UNCHANGED bootResult
     \/ /\ bootResult' = Rejected(HostError("readdir"))
        /\ bootPc' = "settled"
  /\ UNCHANGED <<patchVars, npmRan, toLink, links, bootNextInvoked, notBootVars>>

\* linkDependencies: getPackageJson(packageDir), then getPackageDependencies
LinkGetPackageDependencies ==
  /\ bootPc = "getPackageJson"
  /\ \E outcome \in {"ok", "readJsonFailed", "readdirFailed"} :
       IF outcome = "ok" /\ ~getPackageDependenciesThrows(files.json.pkg, BootPackages)
         THEN /\ toLink' = getPackageDependencies(files.json.pkg, BootPackages)
              /\ bootPc' = "link"
              /\ UNCHANGED bootResult
       ELSE /\ bootResult' = IF outcome = "ok" THEN Rejected(TypeError)
                             ELSE IF outcome = "readJsonFailed"
                               THEN Rejected(HostError("readJson"))
                             ELSE Rejected(HostError("readdir"))
            /\ bootPc' = "settled"
            /\ UNCHANGED toLink
  /\ UNCHANGED <<patchVars, npmRan, links, bootNextInvoked, notBootVars>>

\* the task of forEach(dependencies, ...): index.js, then index.d.ts
LinkWriteFiles ==
  /\ bootPc = "link"
  /\ toLink # <<>>
  /\ \E outcome \in {"ok", "jsFailed", "dtsFailed"} :
       /\ links' = links
                   \o (IF outcome = "jsFailed" THEN <<>>
                       ELSE <<LinkFile(Head(toLink), "index.js")>>)
                   \o (IF outcome = "ok" THEN <<LinkFile(Head(toLink), "index.d.ts")>>
                       ELSE <<>>)
       /\ IF outcome = "ok"
            THEN /\ toLink' = Tail(toLink)
                 /\ UNCHANGED <<bootPc, bootResult>>
          ELSE /\ bootResult' = Rejected(HostError("writeFile"))
               /\ bootPc' = "settled"
               /\ UNCHANGED toLink
  /\ UNCHANGED <<patchVars, npmRan, bootNextInvoked, notBootVars>>

\* forEach has gone through the dependencies: the value of the last task
\* (undefined of writeFile), or true for no dependency
LinkDone ==
  /\ bootPc = "link"
  /\ toLink = <<>>
  /\ bootResult' = Fulfilled(IF links = <<>> THEN ReduceInitial ELSE JSUndefined)
  /\ bootPc' = "settled"
  /\ UNCHANGED <<patchVars, npmRan, toLink, links, bootNextInvoked, notBootVars>>

\* runOnPackages: the reduce callback of the next package
BootstrapOnNextPackage ==
  /\ bootPc = "settled"
  /\ IF bootResult.state = "rejected"
       THEN /\ bootPc' = "aborted"
            /\ UNCHANGED bootNextInvoked
     ELSE IF ContinueReduceIsFalse(bootResult.value)
       THEN /\ bootPc' = "skipped"
            /\ UNCHANGED bootNextInvoked
     ELSE /\ bootPc' = "next"
          /\ bootNextInvoked' = TRUE
  /\ UNCHANGED <<patchVars, npmRan, toLink, links, bootResult, notBootVars>>

BootNext ==
  \/ Copy
  \/ CopyFails
  \/ ReadJson
  \/ PatchPackageJson
  \/ WriteJson
  \/ FnStart
  \/ FnWrites
  \/ BootstrapInstall
  \/ BootstrapPrune
  \/ CatchMove
  \/ Rethrow
  \/ FinalMove
  \/ BootstrapPatched
  \/ LinkGetPackages
  \/ LinkGetPackageDependencies
  \/ LinkWriteFiles
  \/ LinkDone
  \/ BootstrapOnNextPackage

SpecBootstrap == BootInit /\ [][BootNext]_vars

\* an npm call of the wrapped operation failed
NpmFailed == \E k \in 1 .. Len(npmRan) : ~npmRan[k].ok

(***************************************************************************)
(* C38: in bootstrap a link file is written only after npm install and npm *)
(* prune both succeeded and the original manifest is back in place; if     *)
(* install or prune fails, the manifest is restored, the failure of npm is *)
(* what the command rejects with, no link file is written for the package *)
(* and the command is not invoked for a later package.  (A run in which    *)
(* the restoring host.move itself rejects is left out.)                    *)
(***************************************************************************)
C38_LinksAfterRestore ==
  /\ links # <<>> =>
       /\ npmRan = <<NpmCall("install", TRUE), NpmCall("prune", TRUE)>>
       /\ patchPc = "settled"
       /\ patchResult = Fulfilled(JSUndefined)
       /\ files = [json |-> before, orig |-> NoFile]
       /\ \A k \in 1 .. Len(links) : links[k].dependency \in packagesDir \ {packageDir}
  /\ NpmFailed =>
       /\ links = <<>>
       /\ ~bootNextInvoked
       /\ bootPc \in {"patch", "settled", "aborted"}
       /\ (patchPc = "settled" /\ patchResult # Rejected(HostError("move"))) =>
            /\ files = [json |-> before, orig |-> NoFile]
            /\ patchResult = Rejected(HostError("npm " \o npmRan[Len(npmRan)].arg))
       /\ (bootPc # "patch" /\ patchResult # Rejected(HostError("move"))) =>
            bootResult = Rejected(HostError("npm " \o npmRan[Len(npmRan)].arg))

\* npm install rewrote the manifest, both npm calls succeeded, the manifest
\* was restored and the links of two siblings were written
C38_Witness ==
  /\ fnWrote
  /\ Len(links) = 4
  /\ files.json = before
  /\ bootPc = "next"
  /\ bootNextInvoked

\* npm prune failed after npm install rewrote the manifest, and the run
\* ended with the manifest restored
C38_FailureReached ==
  /\ fnWrote
  /\ npmRan = <<NpmCall("install", TRUE), NpmCall("prune", FALSE)>>
  /\ bootPc = "aborted"
  /\ files.json = before

(***************************************************************************)
(* release, run again                                                      *)
(*                                                                         *)
(* runCommandRelease for one package, invoked MaxRuns times in a row with  *)
(* the registry left as it is: what the second run sees is what the first  *)
(* one left behind (the manifest on disk, the release commit in the log).  *)
(***************************************************************************)
\* what conventionalCommitsParser makes of `chore(<dir>): releases <version>`
\* followed by the list of commit headers
ReleaseCommitParsedAsFeat == [type |-> "feat", footer |-> ""]
ReleaseCommitParsed == [type |-> "chore", footer |-> ""]

RerunCommits == [type : {"fix", "feat", "chore"}, footer : {"", BreakingFooter}]
RerunLogs == UNION {[1 .. k -> RerunCommits] : k \in 0 .. MaxCommits}
RerunVersions == {NoVersion, Version(MaxVer, 0, 0, ""), Version(0, MaxVer, 0, "beta")}

\* the run release is in
ThisRun == rrRuns[Len(rrRuns)]
\* git status --porcelain prints something
WorkspaceDirty == rrDisk # rrHead \/ rrDirty
\* the run is over: the next one starts, if there is one
RunOver(runs) == IF Len(runs) < MaxRuns THEN "status" ELSE "done"

RerunInit ==
  /\ FeIdle
  /\ SortIdle
  /\ PatchIdle
  /\ VerIdle
  /\ CmdIdle
  /\ RwIdle
  /\ RunIdle
  /\ BootIdle
  /\ rrPc = "status"
  /\ rrLog \in RerunLogs
  /\ rrLast \in RerunVersions
  /\ rrDisk \in {Version(0, MaxVer, 0, ""), Version(MaxVer, 0, 0, "beta")}
  /\ rrHead = rrDisk
  /\ rrDirty \in BOOLEAN
  /\ rrRuns = <<>>

\* git status --porcelain; throw new Error('Git workspace not clean!')
RerunGitStatus ==
  /\ rrPc = "status"
  /\ rrPc' = IF WorkspaceDirty THEN "failed" ELSE "getNextVersion"
  /\ UNCHANGED <<rrLog, rrLast, rrDisk, rrHead, rrDirty, rrRuns, notRerunVars>>

\* getReleaseData, getReleaseCommits, getNextVersion, if (data.requireRelease)
RerunGetNextVersion ==
  /\ rrPc = "getNextVersion"
  /\ LET rel == releases(reduceCommits(rrLog, 1, Num(0)))
         required == Len(rrLog) > 0
     IN  /\ rrRuns' = Append(rrRuns,
                        [release |-> rel,
                         next |-> nextVersionOf(rrLast, rrDisk, rel),
                         stage |-> IF required THEN "computed" ELSE "done",
                         content |-> rrDisk,
                         scriptsChanged |-> FALSE,
                         committed |-> FALSE,
                         result |-> JSTrue])
         /\ rrPc' = IF required THEN "increment" ELSE RunOver(rrRuns')
  /\ UNCHANGED <<rrLog, rrLast, rrDisk, rrHead, rrDirty, notRerunVars>>

\* incrementPackageVersion (updateDependencies finds the siblings' versions
\* as the first run found them)
RerunIncrementPackageVersion ==
  /\ rrPc = "increment"
  /\ rrDisk' = IF VersionPatternMatches(rrDisk) THEN ThisRun.next ELSE rrDisk
  /\ rrRuns' = [rrRuns EXCEPT ![Len(rrRuns)].content = rrDisk',
                              ![Len(rrRuns)].stage = "rewritten"]
  /\ rrPc' = "scripts"
  /\ UNCHANGED <<rrLog, rrLast, rrHead, rrDirty, notRerunVars>>

\* npm run release, npm run test
RerunScripts ==
  /\ rrPc = "scripts"
  /\ \E outcome \in {"unchanged", "changed", "failed"} :
       IF outcome = "failed"
         THEN /\ rrPc' = "failed"
              /\ rrDirty' \in BOOLEAN
              /\ UNCHANGED rrRuns
       ELSE /\ rrDirty' = (outcome = "changed")
            /\ rrRuns' = [rrRuns EXCEPT ![Len(rrRuns)].scriptsChanged = rrDirty',
                                        ![Len(rrRuns)].stage = "scripts"]
            /\ rrPc' = "statusAfter"
  /\ UNCHANGED <<rrLog, rrLast, rrDisk, rrHead, notRerunVars>>

\* git status --porcelain; if dirty git add ., git commit, false; else true
RerunGitStatusAfter ==
  /\ rrPc = "statusAfter"
  /\ IF WorkspaceDirty
       THEN /\ rrHead' = rrDisk
            /\ rrDirty' = FALSE
            /\ rrLog' = <<ReleaseCommitParsed>> \o rrLog
            /\ rrRuns' = [rrRuns EXCEPT ![Len(rrRuns)].committed = TRUE,
                                        ![Len(rrRuns)].result = JSFalse,
                                        ![Len(rrRuns)].stage = "done"]
       ELSE /\ rrRuns' = [rrRuns EXCEPT ![Len(rrRuns)].stage = "done"]
            /\ UNCHANGED <<rrHead, rrDirty, rrLog>>
  /\ rrPc' = RunOver(rrRuns)
  /\ UNCHANGED <<rrLast, rrDisk, notRerunVars>>

RerunNext ==
  \/ RerunGitStatus
  \/ RerunGetNextVersion
  \/ RerunIncrementPackageVersion
  \/ RerunScripts
  \/ RerunGitStatusAfter

SpecRerun == RerunInit /\ [][RerunNext]_vars

\* what holds of a run and the run before it, whatever nextVersion comes from
SameAsBefore(a, b) ==
  /\ b.next = a.next
  /\ b.stage # "computed" => b.content = a.content
  /\ (b.stage = "done" /\ ~b.scriptsChanged) =>
       /\ ~b.committed
       /\ b.result = JSTrue

\* release commits in the log
ReleaseCommitsIn(log) == Cardinality({k \in 1 .. Len(log) : log[k] = ReleaseCommitParsed})

(***************************************************************************)
(* C34, as stated: a release run after a run that made its release commit, *)
(* with the registry unchanged, computes the same nextVersion, which is    *)
(* derived from the registry's last version and not from the manifest,     *)
(* rewrites the manifest to the same content and makes no second release   *)
(* commit when the scripts change no files.                                *)
(***************************************************************************)
C34_FromRegistryOnly ==
  \A k \in 1 .. Len(rrRuns) - 1 :
     rrRuns[k].committed =>
        /\ SameAsBefore(rrRuns[k], rrRuns[k + 1])
        /\ rrLast.t = "version"
        /\ rrRuns[k + 1].next = semverInc(rrLast, rrRuns[k + 1].release)

(***************************************************************************)
(* C34, amended: a release run after a run that made its release commit,   *)
(* with the registry unchanged, computes the same nextVersion - semver.inc *)
(* of the registry's last version when there is one, and otherwise the     *)
(* version of the manifest, which the earlier run left as it was -,        *)
(* rewrites the manifest to the same content and makes no second release   *)
(* commit when the scripts change no files.                                *)
(***************************************************************************)
C34_RerunIdempotent ==
  \A k \in 1 .. Len(rrRuns) - 1 :
     rrRuns[k].committed =>
        /\ SameAsBefore(rrRuns[k], rrRuns[k + 1])
        /\ rrRuns[k + 1].release = rrRuns[k].release
        /\ rrRuns[k + 1].next = IF rrLast.t = "version"
                                  THEN semverInc(rrLast, rrRuns[k + 1].release)
                                  ELSE rrRuns[k].content

\* the first run rewrote the version and committed; the second run, whose
\* scripts changed nothing, came to the same version and made no commit
C34_Witness ==
  /\ Len(rrRuns) >= 2
  /\ rrRuns[1].committed
  /\ rrRuns[1].content = rrRuns[1].next
  /\ rrRuns[2].stage = "done"
  /\ ~rrRuns[2].scriptsChanged
  /\ ~rrRuns[2].committed
  /\ rrRuns[2].next = rrRuns[1].next
  /\ rrLast.t = "version"
  /\ ReleaseCommitsIn(rrLog) = 1

==========================================================================
